---- MODULE Spec2Model ----
(***************************************************************************)
(* A model of the route-optimisation core of tsp_w_sequence_constraints:   *)
(* the distance manager, the route objective and validity check, the       *)
(* relocate neighbourhood operation and the ALNS destroy/repair operators. *)
(*                                                                         *)
(* Numbers.  Distances are floats rounded to one decimal: the model keeps  *)
(* them as integers in tenths.  L is in tenths as well, and an objective   *)
(* L*Delta + D is kept in hundredths, so all comparisons are exact.        *)
(* Python values of different types never compare equal (1 != "1"); where  *)
(* the code mixes them the model tags them, PyInt(1) and PyStr(1).         *)
(* An omitted (None) argument is the empty tuple, a given one <<v>>.       *)
(***************************************************************************)
EXTENDS Integers, Sequences, FiniteSets, TLC

VARIABLES
    nodes,      \* NodeManager.nodes: id -> <<x, y>>
    distances,  \* EuclidianDistanceManager.distances: <<id, id>> -> tenths
    l_memo,     \* the @cache of get_l_value: <<>> or <<L>>
    route,      \* the sequence of node ids of the route the caller holds
    last,       \* the last call made: its name, arguments and result
    alns,       \* the state of the ALNS run (see the ALNS section)
    termination, \* the fields of the Termination object
    clock,      \* time.time(), in seconds
    rnd_seed,   \* the rnd_seed of the two Relocate operations constructed
    rnd_calls,  \* per operation, its calls of apply with omitted parameters
    iterations, \* Callback.iterations: the journal, a list of records
    node_order  \* the keys of NodeManager.nodes in the order they were added,
                \* kept where that order is read (get_closest_k_nodes)

vars == <<nodes, distances, l_memo, route, last, alns, termination, clock, rnd_seed, rnd_calls, iterations, node_order>>

\* The variables of the objects that only the specifications of the
\* termination criteria, of the seeded operations and of the callback touch.
other_vars == <<termination, clock, rnd_seed, rnd_calls, iterations, node_order>>

(***************************************************************************)
(* Bounds of the model.                                                    *)
(***************************************************************************)
MaxN == 3          \* intermediate nodes of the instances relocate.apply is run on
MaxLayout == 3     \* the coordinate layouts are 0..MaxLayout
MaxImproveN == 4   \* intermediate nodes of the instances the improvement searches run on
MaxValidN == 3     \* intermediate nodes of the instances every sequence is validated on
MaxPairN == 10     \* intermediate nodes of the instances <<0, i, j, n+1>> is validated on
MaxObjN == 2       \* intermediate nodes of the instances every sequence is evaluated on
MaxObjLayout == 1  \* the coordinate layouts of those instances are 0..MaxObjLayout
MaxFrameN == 2     \* intermediate nodes of the instances apply and the searches alternate on
MaxFrameLayout == 1 \* the coordinate layouts of those instances are 0..MaxFrameLayout
MaxSeededN == 2    \* intermediate nodes of the instances the seeded operations are called on
MaxSeeds == 2      \* the seeds are DEFAULT_RND_SEED..DEFAULT_RND_SEED + MaxSeeds - 1
MaxCalls == 2      \* calls of apply made by each seeded operation
MaxJournal == 3    \* records the journal of the callback holds
MaxFloat == 1      \* objectives, values and runtimes are 0..MaxFloat
MaxOnIteration == 1 \* on_iteration is called while the journal is shorter than this
MaxRows == 2       \* data rows of the files parsed
MaxFields == 4     \* a row has 1..MaxFields fields
MaxField == 1      \* a field is a numeral 0..MaxField
MaxClosestNodes == 3 \* nodes of the managers the closest nodes are taken from
MaxClosestCoord == 1 \* their x coordinates are 0..MaxClosestCoord
MaxClosestK == 2   \* k is 0..MaxClosestK
MaxRepairNodes == 4
DestroyNodes == 30
MaxRedirect == 2
MaxRunObjective == 1
MaxDistN == 1      \* intermediate nodes of the instances distances are queried on
MaxBalanceN == 3   \* intermediate nodes of the instances whose tours are compared
MaxMemoNodes == 4  \* add_node is called until the node manager holds MaxMemoNodes nodes
MaxMemoCoord == 2  \* with coordinates in 0..MaxMemoCoord
MaxAlnsSmallN == 2 \* ALNS runs on every valid seed of 1..MaxAlnsSmallN intermediates,
AlnsMediumN == 8   \* on one seed of an instance with AlnsMediumN intermediates
AlnsLargeN == 28   \* and on one seed of an instance with AlnsLargeN intermediates
MaxBudget == 2     \* max_iterations and max_seconds are -1..MaxBudget, iteration counts 0..MaxBudget + 1
MaxValue == 1      \* min_value, max_value and the values passed are 0..MaxValue
MaxClock == 3      \* the clock runs from 0 to MaxClock seconds
MaxCacheN == 1     \* direct queries go with ALNS runs on instances of up to MaxCacheN intermediates
MaxAlnsIterations == 3       \* iterations of ALNS before the stop criterion ends the run
MaxAlnsLargeIterations == 1  \* the same, on the instance with AlnsLargeN intermediates

(***************************************************************************)
(* Python helpers.                                                         *)
(***************************************************************************)
None == <<>>
Some(v) == <<v>>
IsNone(p) == p = <<>>

PyInt(i) == <<"int", i>>
PyStr(i) == <<"str", i>>

Min2(a, b) == IF a <= b THEN a ELSE b
Max2(a, b) == IF a >= b THEN a ELSE b

\* The index a Python slice bound k denotes in a list of length len.
SliceIndex(k, len) ==
    IF k < 0 THEN Max2(k + len, 0) ELSE Min2(k, len)

\* s[a:b] of Python, for a list held as a TLA+ sequence (0-based a, b).
Slice(s, a, b) ==
    SubSeq(s, SliceIndex(a, Len(s)) + 1, SliceIndex(b, Len(s)))

\* s[a:] and s[:b].
SliceFrom(s, a) == Slice(s, a, Len(s))
SliceTo(s, b) == Slice(s, 0, b)

RECURSIVE SumSeq(_)
SumSeq(s) == IF s = <<>> THEN 0 ELSE Head(s) + SumSeq(Tail(s))

RECURSIVE MaxSeq(_)
MaxSeq(s) == IF Len(s) = 1 THEN s[1] ELSE Max2(Head(s), MaxSeq(Tail(s)))

RECURSIVE MinSeq(_)
MinSeq(s) == IF Len(s) = 1 THEN s[1] ELSE Min2(Head(s), MinSeq(Tail(s)))

\* The number of times x occurs in s.
Count(s, x) == Cardinality({k \in 1..Len(s) : s[k] = x})

\* The multiset of the elements of s, as a function from element to count.
BagOfSeq(s) == [x \in {s[k] : k \in 1..Len(s)} |-> Count(s, x)]

\* All sequences over S of length exactly k, and of length at most k.
RECURSIVE SeqsOfLen(_, _)
SeqsOfLen(S, k) ==
    IF k = 0 THEN {<<>>}
    ELSE {Append(s, x) : s \in SeqsOfLen(S, k - 1), x \in S}

SeqsUpTo(S, k) == UNION {SeqsOfLen(S, j) : j \in 0..k}

\* The permutations of the set S, as sequences.
PermSeqs(S) ==
    {s \in SeqsOfLen(S, Cardinality(S)) : \A x \in S : Count(s, x) = 1}

\* floor(sqrt(s)) by bisection on lo..hi.
RECURSIVE ISqrtIn(_, _, _)
ISqrtIn(s, lo, hi) ==
    IF lo >= hi THEN lo
    ELSE LET mid == (lo + hi + 1) \div 2
         IN  IF mid * mid <= s THEN ISqrtIn(s, mid, hi)
             ELSE ISqrtIn(s, lo, mid - 1)

\* A power of two above sqrt(s), reached from h by doubling.
RECURSIVE RootBound(_, _)
RootBound(s, h) == IF h * h > s THEN h ELSE RootBound(s, 2 * h)

ISqrt(s) == ISqrtIn(s, 0, RootBound(s, 1))

(***************************************************************************)
(* The objects a specification does not run stay as their constructors     *)
(* leave them: Termination() with its default arguments at time 0, and     *)
(* two Relocate operations with the default rnd_seed.                      *)
(***************************************************************************)
\* Termination.__init__: a budget below 0 is the default -1; min_value and
\* max_value are None for the defaults -inf and +inf, else Some(v).
Termination(max_iterations, max_seconds, min_value, max_value, now) ==
    [max_iterations |-> max_iterations, max_seconds |-> max_seconds,
     min_value |-> min_value, max_value |-> max_value, start_time |-> now]

\* Relocate.__init__: rnd_seed: int = 42.
DEFAULT_RND_SEED == 42

OthersAtRest ==
    /\ termination = Termination(-1, -1, None, None, 0)
    /\ clock = 0
    /\ rnd_seed = <<DEFAULT_RND_SEED, DEFAULT_RND_SEED>>
    /\ rnd_calls = <<<<>>, <<>>>>
    /\ iterations = <<>>
    /\ node_order = <<>>

(***************************************************************************)
(* Instances.  An instance has the nodes 0..n+1 (0 and n+1 the depots);    *)
(* its coordinates come from a small family of integer layouts.            *)
(***************************************************************************)
LayoutX(g, i) == (i * (g + 1) + (i * i) \div 2) % 5
LayoutY(g, i) == (i * g + (i \div 2)) % 3

Instance(n, g) == [i \in 0..(n + 1) |-> <<LayoutX(g, i), LayoutY(g, i)>>]

\* n of the code: len(node_manager.nodes) - 2.
NumIntermediate(nd) == Cardinality(DOMAIN nd) - 2

(***************************************************************************)
(* EuclidianDistanceManager.                                               *)
(***************************************************************************)
\* __init__: the one pre-seeded entry, keyed (nb_of_nodes - 1, 0).
InitDistances(nb_of_nodes) ==
    [key \in {<<nb_of_nodes - 1, 0>>} |-> 0]

\* calculate_distance: 0 for equal ids, else round(sqrt(dx^2 + dy^2), 1),
\* in tenths: the integer nearest to sqrt(100 * (dx^2 + dy^2)).
calculate_distance(nd, a, b) ==
    IF a = b THEN 0
    ELSE LET dx == nd[a][1] - nd[b][1]
             dy == nd[a][2] - nd[b][2]
         IN  (ISqrt(400 * (dx * dx + dy * dy)) + 1) \div 2

\* A variant of the cache key: the ids in the order of the arguments.
DistanceKey_as_given(a, b) == <<a, b>>

\* The cache key get_distance builds: (min id, max id).
DistanceKey(a, b) == <<Min2(a, b), Max2(a, b)>>

\* The value get_distance returns with the cache as it is.
get_distance(nd, cache, a, b) ==
    IF DistanceKey(a, b) \in DOMAIN cache
    THEN cache[DistanceKey(a, b)]
    ELSE calculate_distance(nd, Min2(a, b), Max2(a, b))

\* A variant of the cache update that keeps the entries asked for only.
CacheAfter_only_asked(nd, cache, pairs) ==
    LET keys == {DistanceKey(p[1], p[2]) : p \in pairs}
    IN  [key \in keys |->
            IF key \in DOMAIN cache THEN cache[key]
            ELSE calculate_distance(nd, key[1], key[2])]

\* The cache after get_distance was called on each pair of the set pairs.
\* A missing key is filled with calculate_distance, a present one is kept.
CacheAfter(nd, cache, pairs) ==
    LET keys == {DistanceKey(p[1], p[2]) : p \in pairs}
    IN  IF keys \subseteq DOMAIN cache THEN cache
        ELSE [key \in (DOMAIN cache) \cup keys |->
                IF key \in DOMAIN cache THEN cache[key]
                ELSE calculate_distance(nd, key[1], key[2])]

\* The pairs a route evaluation asks the distance manager for.
ConsecutivePairs(seq) ==
    {<<seq[k], seq[k + 1]>> : k \in 1..(Len(seq) - 1)}

\* The pairs get_l_value asks for: every unordered pair of managed nodes.
AllPairs(nd) == {<<a, b>> \in (DOMAIN nd) \X (DOMAIN nd) : a < b}

(***************************************************************************)
(* schemas/route.py: the objective.                                        *)
(***************************************************************************)
\* A variant of get_l_value that multiplies by the number of managed nodes.
get_l_value_all_nodes(nd, cache) ==
    LET ds == {get_distance(nd, cache, p[1], p[2]) : p \in AllPairs(nd)}
        max_distance_matrix ==
            IF ds = {} THEN 0 ELSE CHOOSE d \in ds : \A e \in ds : e <= d
    IN  max_distance_matrix * Cardinality(DOMAIN nd)

\* A variant of get_l_value that does not multiply by n.
get_l_value_no_count(nd, cache) ==
    LET ds == {get_distance(nd, cache, p[1], p[2]) : p \in AllPairs(nd)}
    IN  IF ds = {} THEN 0 ELSE CHOOSE d \in ds : \A e \in ds : e <= d

\* get_l_value's body: max(d_ij) over every pair of managed nodes, times n.
\* The running maximum starts at 0.0.  In tenths.
get_l_value(nd, cache) ==
    LET ds == {get_distance(nd, cache, p[1], p[2]) : p \in AllPairs(nd)}
        max_distance_matrix ==
            IF ds = {} THEN 0 ELSE CHOOSE d \in ds : \A e \in ds : e <= d
    IN  max_distance_matrix * NumIntermediate(nd)

\* get_l_value behind functools.cache: the memoised value when there is
\* one, else the body's value.
LInEffect(nd, cache, memo) ==
    IF IsNone(memo) THEN get_l_value(nd, cache) ELSE memo[1]

\* total_distance_and_distances: the list of consecutive-pair distances
\* (empty for a route of fewer than MIN_ROUTE_NODES nodes).
MIN_ROUTE_NODES == 2

edge_distances(nd, cache, seq) ==
    IF Len(seq) < MIN_ROUTE_NODES THEN <<>>
    ELSE [k \in 1..(Len(seq) - 1) |-> get_distance(nd, cache, seq[k], seq[k + 1])]

total_distance(nd, cache, seq) == SumSeq(edge_distances(nd, cache, seq))

\* calculate_objective_value raises ValueError at max(distances) when the
\* list of distances is empty.
ObjectiveRaises(seq) == Len(seq) < MIN_ROUTE_NODES

\* calculate_objective_value: l_value * delta + d_value, in hundredths
\* (l_value and delta are in tenths, d_value is in tenths).
calculate_objective_value(nd, cache, memo, seq) ==
    LET ds == edge_distances(nd, cache, seq)
        delta == MaxSeq(ds) - MinSeq(ds)
        l_value == LInEffect(nd, cache, memo)
    IN  l_value * delta + 10 * SumSeq(ds)

\* What an evaluation of seq leaves in the distance cache and in the memo.
CacheAfterObjective(nd, cache, memo, seq) ==
    IF ObjectiveRaises(seq) THEN cache
    ELSE CacheAfter(nd, cache,
            ConsecutivePairs(seq) \cup (IF IsNone(memo) THEN AllPairs(nd) ELSE {}))

MemoAfterObjective(nd, cache, memo, seq) ==
    IF ObjectiveRaises(seq) THEN memo
    ELSE Some(LInEffect(nd, cache, memo))

(***************************************************************************)
(* schemas/route.py: the validity check.  Node.id is an int.               *)
(***************************************************************************)
\* A variant of the two constraints with n / 2 as an integer division.
constraint_violated_floor(current_id, next_id, n) ==
    \/ current_id % 2 = 0 /\ next_id % 2 = 1 /\ current_id < n \div 2
    \/ current_id % 2 = 1 /\ next_id % 2 = 0 /\ current_id >= n \div 2

\* A variant of the two constraints with > in place of >= in constraint 2.
constraint_violated_strict(current_id, next_id, n) ==
    \/ current_id % 2 = 0 /\ next_id % 2 = 1 /\ 2 * current_id < n
    \/ current_id % 2 = 1 /\ next_id % 2 = 0 /\ 2 * current_id > n

\* Constraint 1 and constraint 2 of the loop, on one consecutive pair:
\* even -> odd with current_id < n / 2, odd -> even with current_id >= n / 2
\* (n / 2 is a float division: current_id < n / 2 iff 2 * current_id < n).
constraint_violated(current_id, next_id, n) ==
    \/ current_id % 2 = 0 /\ next_id % 2 = 1 /\ 2 * current_id < n
    \/ current_id % 2 = 1 /\ next_id % 2 = 0 /\ 2 * current_id >= n

\* The depot test of the loop: the id, an int, is compared with the
\* strings "0" and str(n + 1).
skip_depot(id, n) == PyInt(id) = PyStr(0) \/ PyInt(id) = PyStr(n + 1)

\* One turn of the loop, on the pair at positions k, k + 1: TRUE when the
\* turn returns False (the pair is not skipped and a constraint is violated).
pair_rejected(seq, k, n) ==
    /\ ~skip_depot(seq[k], n)
    /\ ~skip_depot(seq[k + 1], n)
    /\ constraint_violated(seq[k], seq[k + 1], n)

\* The loop over the consecutive pairs: TRUE when no pair returns False.
sequence_constraints_hold(seq, n) ==
    \A k \in 1..(Len(seq) - 1) : ~pair_rejected(seq, k, n)

\* sorted(intermediate_nodes) != sorted(expected_intermediate): the first
\* list holds int(node.id), the second str(i) for i in 1..n.  Two sorted
\* lists are equal when they hold the same elements as often.
intermediates_match(seq, n) ==
    LET intermediate_nodes == [k \in 1..(Len(seq) - 2) |-> PyInt(seq[k + 1])]
        expected_intermediate == [i \in 1..n |-> PyStr(i)]
    IN  BagOfSeq(intermediate_nodes) = BagOfSeq(expected_intermediate)

\* Route.is_valid_route, as the message it logs before it returns.
is_valid_route_log(seq, nd) ==
    LET n == NumIntermediate(nd)
    IN  IF Len(seq) < MIN_ROUTE_NODES THEN "Route has fewer than 2 nodes"
        ELSE IF seq[1] # 0 THEN "Route does not start at node 0"
        ELSE IF seq[Len(seq)] # n + 1 THEN "Route does not end at node n+1"
        ELSE IF ~intermediates_match(seq, n)
             THEN "Not all intermediate nodes are visited exactly once"
        ELSE IF ~sequence_constraints_hold(seq, n) THEN "Constraint violated"
        ELSE "Route is valid"

is_valid_route(seq, nd) == is_valid_route_log(seq, nd) = "Route is valid"

(***************************************************************************)
(* The edge-validity oracle and the route evaluator.  EdgeManager and      *)
(* RouteEvaluator are used by relocate.py and alns_wrapper.py but are not  *)
(* among the sources; they follow sections 3, 4.2 and 4.3 of the spec.     *)
(***************************************************************************)
\* EdgeManager.is_edge_valid(i, j): a transition that touches a depot is
\* admissible; between intermediates the parity rule decides.
is_edge_valid(i, j, n) ==
    \/ i \in {0, n + 1}
    \/ j \in {0, n + 1}
    \/ ~ ( \/ i % 2 = 0 /\ j % 2 = 1 /\ 2 * i < n
           \/ i % 2 = 1 /\ j % 2 = 0 /\ 2 * i >= n )

\* RouteEvaluator.is_valid_route(route): the route invariants of section 3.
RouteEvaluator_is_valid_route(seq, nd) ==
    LET n == NumIntermediate(nd)
    IN  /\ Len(seq) >= 2
        /\ seq[1] = 0
        /\ seq[Len(seq)] = n + 1
        /\ Len(seq) = n + 2
        /\ \A i \in 1..n : \E k \in 2..(Len(seq) - 1) : seq[k] = i
        /\ \A k \in 1..(Len(seq) - 1) : is_edge_valid(seq[k], seq[k + 1], n)

\* RouteEvaluator.calculate_objective_value(route): L * Delta + D of 4.2,
\* which is what Route.calculate_objective_value computes.
RouteEvaluator_calculate_objective_value(nd, cache, memo, seq) ==
    calculate_objective_value(nd, cache, memo, seq)

(***************************************************************************)
(* optimiser/iterative/operations/relocate.py                              *)
(***************************************************************************)
MIN_ROUTE_LENGTH == 4

\* valid_positions of apply, for a sampled insert position.
valid_positions(len, v1, v2) ==
    {i \in 0..(len - (v2 - v1 + 1) - 1) : ~(v1 <= i /\ i <= v2)}

\* A variant of the move that cuts seq[v1 : v2 + 1] but puts back seq[v1 : v2].
relocate_segment_short(seq, v1, v2, insert_pos) ==
    LET segment_length == v2 - v1 + 1
        segment == Slice(seq, v1, v2)
        new_sequence == SliceTo(seq, v1) \o SliceFrom(seq, v2 + 1)
        adjusted_insert_pos ==
            IF insert_pos < v1 THEN insert_pos ELSE insert_pos - segment_length
    IN  SliceTo(new_sequence, adjusted_insert_pos)
            \o segment
            \o SliceFrom(new_sequence, adjusted_insert_pos)

\* Lines 107-127: cut seq[v1 : v2 + 1] and put it back at insert_pos.
relocate_segment(seq, v1, v2, insert_pos) ==
    LET segment_length == v2 - v1 + 1
        segment == Slice(seq, v1, v2 + 1)
        new_sequence == SliceTo(seq, v1) \o SliceFrom(seq, v2 + 1)
        adjusted_insert_pos ==
            IF insert_pos < v1 THEN insert_pos ELSE insert_pos - segment_length
    IN  SliceTo(new_sequence, adjusted_insert_pos)
            \o segment
            \o SliceFrom(new_sequence, adjusted_insert_pos)

\* The draws apply makes from rnd_generator, <<v1, v2, insert_pos>>; a
\* component that is not drawn is 0.
NoDraw == <<0, 0, 0>>

\* v1 and v2 after lines 76-81: both drawn when one is omitted, swapped
\* when v1 > v2.
resolved_v(a1, a2, draw) ==
    IF IsNone(a1) \/ IsNone(a2) THEN <<draw[1], draw[2]>>
    ELSE IF a1[1] > a2[1] THEN <<a2[1], a1[1]>>
    ELSE <<a1[1], a2[1]>>

\* Does apply get as far as moving the segment (lines 107-127)?
apply_moves(seq, a1, a2, ap, draw) ==
    LET route_length == Len(seq)
        v == resolved_v(a1, a2, draw)
        v1 == v[1]
        v2 == v[2]
    IN  /\ route_length >= MIN_ROUTE_LENGTH
        /\ ~(v1 < 1 \/ v2 >= route_length - 1 \/ v1 > v2)
        /\ IF IsNone(ap) THEN valid_positions(route_length, v1, v2) # {}
           ELSE ~(ap[1] < 0 \/ ap[1] >= route_length - (v2 - v1 + 1))

\* The sequence of the route Relocate.apply returns.
apply(seq, a1, a2, ap, draw) ==
    LET v == resolved_v(a1, a2, draw)
        insert_pos == IF IsNone(ap) THEN draw[3] ELSE ap[1]
    IN  IF apply_moves(seq, a1, a2, ap, draw)
        THEN relocate_segment(seq, v[1], v[2], insert_pos)
        ELSE seq

\* A variant of the frame of apply that writes to the route passed in
\* whatever inplace says.
route_after_apply_always(seq, out, inplace) == out

\* Lines 130-142: the sequence of the route passed in, after the call.  It
\* is assigned only when inplace is set; otherwise the result is a new
\* Route (or route.copy() when nothing is moved).
route_after_apply(seq, out, inplace) == IF inplace THEN out ELSE seq

\* The draws rnd_generator can return in a call of apply: randint(1,
\* route_length - 2), randint(v1, route_length - 2) and a choice among
\* valid_positions, each made only where the code reaches it.
Draws(seq, a1, a2, ap) ==
    LET route_length == Len(seq)
        draws_v == IsNone(a1) \/ IsNone(a2)
        R1 == IF route_length >= MIN_ROUTE_LENGTH /\ draws_v
              THEN 1..(route_length - 2) ELSE {0}
        R2(r1) == IF route_length >= MIN_ROUTE_LENGTH /\ draws_v
                  THEN r1..(route_length - 2) ELSE {0}
        R3(r1, r2) ==
            LET v == resolved_v(a1, a2, <<r1, r2, 0>>)
            IN  IF /\ route_length >= MIN_ROUTE_LENGTH
                   /\ ~(v[1] < 1 \/ v[2] >= route_length - 1 \/ v[1] > v[2])
                   /\ IsNone(ap)
                   /\ valid_positions(route_length, v[1], v[2]) # {}
                THEN valid_positions(route_length, v[1], v[2])
                ELSE {0}
    IN  UNION {UNION {{<<r1, r2, r3>> : r3 \in R3(r1, r2)} : r2 \in R2(r1)} : r1 \in R1}

\* The moves the loops of apply_best_improvement and of
\* apply_first_improvement reach, in the order they reach them:
\* v1 in range(1, route_length - 2), v2 in range(v1, route_length - 2),
\* insert_pos in range(0, route_length - segment_length), skipping
\* v1 <= insert_pos <= v2 + 1.
enumerated_moves(route_length) ==
    LET R == route_length
        all == [k \in 1..(R * R * R) |->
                    <<(k - 1) \div (R * R), ((k - 1) \div R) % R, (k - 1) % R>>]
        reached(m) ==
            /\ 1 <= m[1] /\ m[1] < route_length - 2
            /\ m[1] <= m[2] /\ m[2] < route_length - 2
            /\ m[3] < route_length - (m[2] - m[1] + 1)
            /\ ~(m[1] <= m[3] /\ m[3] <= m[2] + 1)
    IN  SelectSeq(all, reached)

\* The candidate a move gives: self.apply(route, v1, v2, insert_pos).
candidate(seq, m) == apply(seq, Some(m[1]), Some(m[2]), Some(m[3]), NoDraw)

\* Is the candidate of move m evaluated (not skipped by only_valid)?
evaluated(seq, m, only_valid, nd) ==
    ~only_valid \/ RouteEvaluator_is_valid_route(candidate(seq, m), nd)

\* apply_best_improvement: the sequence of the route it returns.  Every
\* objective is taken with the L that the first evaluation memoises.
apply_best_improvement(seq, only_valid, nd, cache, memo) ==
    LET moves == enumerated_moves(Len(seq))
        l == Some(LInEffect(nd, cache, memo))
        value(c) == RouteEvaluator_calculate_objective_value(nd, cache, l, c)
        RECURSIVE scan(_, _, _)
        scan(k, best_route, best_value) ==
            IF k > Len(moves) THEN best_route
            ELSE LET new_route == candidate(seq, moves[k])
                 IN  IF ~evaluated(seq, moves[k], only_valid, nd)
                     THEN scan(k + 1, best_route, best_value)
                     ELSE IF value(new_route) < best_value
                     THEN scan(k + 1, new_route, value(new_route))
                     ELSE scan(k + 1, best_route, best_value)
    IN  scan(1, seq, value(seq))

\* apply_first_improvement: the index in enumerated_moves of the move it
\* returns the candidate of, 0 when it returns the route it was given.
first_improvement_index(seq, only_valid, nd, cache, memo) ==
    LET moves == enumerated_moves(Len(seq))
        l == Some(LInEffect(nd, cache, memo))
        value(c) == RouteEvaluator_calculate_objective_value(nd, cache, l, c)
        curr_value == value(seq)
        RECURSIVE scan(_)
        scan(k) ==
            IF k > Len(moves) THEN 0
            ELSE IF /\ evaluated(seq, moves[k], only_valid, nd)
                    /\ value(candidate(seq, moves[k])) < curr_value
            THEN k
            ELSE scan(k + 1)
    IN  scan(1)

apply_first_improvement(seq, only_valid, nd, cache, memo) ==
    LET k == first_improvement_index(seq, only_valid, nd, cache, memo)
    IN  IF k = 0 THEN seq ELSE candidate(seq, enumerated_moves(Len(seq))[k])

\* The sequence of the route passed to a search, after the search has
\* called self.apply(route, v1, v2, insert_pos, inplace=False) for the
\* first upto moves; best_route is a copy (line 162).
RECURSIVE route_after_moves(_, _, _)
route_after_moves(seq, moves, upto) ==
    IF upto = 0 THEN seq
    ELSE LET before == route_after_moves(seq, moves, upto - 1)
         IN  route_after_apply(before, candidate(before, moves[upto]), FALSE)

\* The pairs the distance manager is asked for by the evaluations of the
\* first upto moves (all of them for apply_best_improvement).
improvement_pairs(seq, only_valid, nd, upto) ==
    LET moves == enumerated_moves(Len(seq))
    IN  ConsecutivePairs(seq) \cup
        UNION {ConsecutivePairs(candidate(seq, moves[k])) :
                 k \in {j \in 1..Min2(upto, Len(moves)) :
                          evaluated(seq, moves[j], only_valid, nd)}}

(***************************************************************************)
(* The record of the last call.                                            *)
(***************************************************************************)
\* op: the call; in: the sequence of the route passed in; args: the
\* explicit arguments; draw: what the random generator returned; flag:
\* inplace or only_valid; out: the sequence of the route returned; ok: a
\* boolean result; val: a numeric result; exc: the exception raised; log:
\* the last message logged.
Call(op, in, args, draw, flag, out, ok, val, exc) ==
    [op |-> op, in |-> in, args |-> args, draw |-> draw, flag |-> flag,
     out |-> out, ok |-> ok, val |-> val, exc |-> exc, log |-> ""]

\* The same, with the last message the call logged.
CallLog(op, in, out, ok, log) ==
    [Call(op, in, <<>>, <<0, 0, 0>>, FALSE, out, ok, 0, "none") EXCEPT !.log = log]

NoCall == Call("none", <<>>, <<>>, NoDraw, FALSE, <<>>, FALSE, 0, "none")

\* The record is an observation of one call.  The caller drops it before
\* the next call (Forget), so that calls start from states that differ in
\* the program's state only.
Idle == last.op = "none"

Forget ==
    /\ ~Idle
    /\ last' = NoCall
    /\ UNCHANGED <<nodes, distances, l_memo, route, alns, other_vars>>

\* No ALNS run is under way.
AlnsOff == [pc |-> "off"]

\* The routes over the instance with n intermediates that visit every
\* intermediate once between the depots.
TourRoutes(n) == {<<0>> \o p \o <<n + 1>> : p \in PermSeqs(1..n)}

\* An explicit argument: omitted, or an index from just below to just
\* above the positions of the route.
ArgRange(seq) == {None} \cup {Some(i) : i \in (-1)..Len(seq)}

(***************************************************************************)
(* Specification SpecApply: Relocate.apply, called with every argument     *)
(* tuple, in place or not, on the route the caller holds.                  *)
(***************************************************************************)
InitApply ==
    \E n \in 0..MaxN :
        /\ nodes = Instance(n, 0)
        /\ distances = InitDistances(n + 2)
        /\ l_memo = None
        /\ route \in TourRoutes(n)
        /\ last = NoCall
        /\ alns = AlnsOff
        /\ OthersAtRest

Apply(a1, a2, ap, inplace) ==
    \E draw \in Draws(route, a1, a2, ap) :
        LET out == apply(route, a1, a2, ap, draw)
        IN  /\ route' = route_after_apply(route, out, inplace)
            /\ last' = Call("apply", route, <<a1, a2, ap>>, draw, inplace,
                            out, apply_moves(route, a1, a2, ap, draw), 0, "none")
            /\ UNCHANGED <<nodes, distances, l_memo, alns, other_vars>>

NextApply ==
    \/ /\ Idle
       /\ \E a1 \in ArgRange(route), a2 \in ArgRange(route), ap \in ArgRange(route),
             inplace \in BOOLEAN :
              Apply(a1, a2, ap, inplace)
    \/ Forget

SpecApply == InitApply /\ [][NextApply]_vars

(***************************************************************************)
(* Specification SpecImprove: the two improvement searches of Relocate,    *)
(* on every tour of every instance of the layout family.                   *)
(***************************************************************************)
InitImprove ==
    \E n \in 0..MaxImproveN, g \in 0..MaxLayout :
        /\ nodes = Instance(n, g)
        /\ distances = InitDistances(n + 2)
        /\ l_memo = None
        /\ route \in TourRoutes(n)
        /\ last = NoCall
        /\ alns = AlnsOff
        /\ OthersAtRest

\* The first statement of both searches evaluates the route, which raises
\* for a route without an edge.
ApplyBestImprovement(only_valid) ==
    /\ last' =
        IF ObjectiveRaises(route)
        THEN Call("apply_best_improvement", route, <<>>, NoDraw, only_valid,
                  <<>>, FALSE, 0, "ValueError")
        ELSE LET out == apply_best_improvement(route, only_valid, nodes, distances, l_memo)
             IN  Call("apply_best_improvement", route, <<>>, NoDraw, only_valid,
                      out, out # route, 0, "none")
    /\ distances' =
        IF ObjectiveRaises(route) THEN distances
        ELSE CacheAfter(nodes, distances,
                improvement_pairs(route, only_valid, nodes,
                                  Len(enumerated_moves(Len(route))))
                \cup (IF IsNone(l_memo) THEN AllPairs(nodes) ELSE {}))
    /\ l_memo' = MemoAfterObjective(nodes, distances, l_memo, route)
    /\ route' =
        IF ObjectiveRaises(route) THEN route
        ELSE route_after_moves(route, enumerated_moves(Len(route)),
                               Len(enumerated_moves(Len(route))))
    /\ UNCHANGED <<nodes, alns, other_vars>>

ApplyFirstImprovement(only_valid) ==
    /\ last' =
        IF ObjectiveRaises(route)
        THEN Call("apply_first_improvement", route, <<>>, NoDraw, only_valid,
                  <<>>, FALSE, 0, "ValueError")
        ELSE LET k == first_improvement_index(route, only_valid, nodes, distances, l_memo)
                 out == apply_first_improvement(route, only_valid, nodes, distances, l_memo)
             IN  Call("apply_first_improvement", route, <<>>, NoDraw, only_valid,
                      out, k # 0, k, "none")
    /\ distances' =
        IF ObjectiveRaises(route) THEN distances
        ELSE LET k == first_improvement_index(route, only_valid, nodes, distances, l_memo)
                 upto == IF k = 0 THEN Len(enumerated_moves(Len(route))) ELSE k
             IN  CacheAfter(nodes, distances,
                    improvement_pairs(route, only_valid, nodes, upto)
                    \cup (IF IsNone(l_memo) THEN AllPairs(nodes) ELSE {}))
    /\ l_memo' = MemoAfterObjective(nodes, distances, l_memo, route)
    /\ route' =
        IF ObjectiveRaises(route) THEN route
        ELSE LET k == first_improvement_index(route, only_valid, nodes, distances, l_memo)
                 moves == enumerated_moves(Len(route))
             IN  route_after_moves(route, moves, IF k = 0 THEN Len(moves) ELSE k)
    /\ UNCHANGED <<nodes, alns, other_vars>>

NextImprove ==
    \/ /\ Idle
       /\ \E only_valid \in BOOLEAN : ApplyBestImprovement(only_valid)
    \/ /\ Idle
       /\ \E only_valid \in BOOLEAN : ApplyFirstImprovement(only_valid)
    \/ Forget

SpecImprove == InitImprove /\ [][NextImprove]_vars

(***************************************************************************)
(* Specification SpecFrame: apply, in place or not, and the two searches,  *)
(* called one after the other on the route the caller holds.               *)
(***************************************************************************)
InitFrame ==
    \E n \in 0..MaxFrameN, g \in 0..MaxFrameLayout :
        /\ nodes = Instance(n, g)
        /\ distances = InitDistances(n + 2)
        /\ l_memo = None
        /\ route \in TourRoutes(n)
        /\ last = NoCall
        /\ alns = AlnsOff
        /\ OthersAtRest

NextFrame ==
    \/ /\ Idle
       /\ \E a1 \in ArgRange(route), a2 \in ArgRange(route), ap \in ArgRange(route),
             inplace \in BOOLEAN :
              Apply(a1, a2, ap, inplace)
    \/ /\ Idle
       /\ \E only_valid \in BOOLEAN : ApplyBestImprovement(only_valid)
    \/ /\ Idle
       /\ \E only_valid \in BOOLEAN : ApplyFirstImprovement(only_valid)
    \/ Forget

SpecFrame == InitFrame /\ [][NextFrame]_vars

(***************************************************************************)
(* Specification SpecSeeded: two Relocate operations, each constructed     *)
(* with an rnd_seed, called with omitted parameters on the same route.     *)
(***************************************************************************)
\* Line 42: rnd_generator = SystemRandom(x=rnd_seed).  random.SystemRandom
\* takes its numbers from os.urandom and ignores the seed it is given, so
\* what the generator of an operation can return in a call of apply with
\* omitted parameters depends on neither the seed nor the earlier calls.
SystemRandom(x, seq) == Draws(seq, None, None, None)

\* The seeds the operations are constructed with.
Seeds == DEFAULT_RND_SEED..(DEFAULT_RND_SEED + MaxSeeds - 1)

InitSeeded ==
    \E n \in 0..MaxSeededN :
        /\ nodes = Instance(n, 0)
        /\ distances = InitDistances(n + 2)
        /\ l_memo = None
        /\ route \in TourRoutes(n)
        /\ last = NoCall
        /\ alns = AlnsOff
        /\ termination = Termination(-1, -1, None, None, 0)
        /\ clock = 0
        /\ rnd_seed \in Seeds \X Seeds
        /\ rnd_calls = <<<<>>, <<>>>>
        /\ iterations = <<>>
        /\ node_order = <<>>

\* Operation k calls self.apply(route): v1, v2 and insert_pos are omitted
\* and sampled from its rnd_generator; a new route is returned.
RandomApply(k) ==
    /\ Len(rnd_calls[k]) < MaxCalls
    /\ \E draw \in SystemRandom(rnd_seed[k], route) :
          LET out == apply(route, None, None, None, draw)
          IN  /\ rnd_calls' = [rnd_calls EXCEPT ![k] =
                    Append(@, [in |-> route, draw |-> draw, out |-> out])]
              /\ route' = route_after_apply(route, out, FALSE)
    /\ UNCHANGED <<nodes, distances, l_memo, last, alns, termination, clock, rnd_seed, iterations, node_order>>

NextSeeded == \E k \in 1..2 : RandomApply(k)

SpecSeeded == InitSeeded /\ [][NextSeeded]_vars

(***************************************************************************)
(* optimiser/iterative/callback.py.  A record of the journal is a dict;    *)
(* the dict load_alns_result_statistics appends has no "runtime" key       *)
(* until the second loop sets it.  Values are floats, here small naturals. *)
(***************************************************************************)
\* Lines 34-39: the record appended for objectives[i].
loaded_record(i, curr_value, best_value) ==
    [iteration |-> i, current_value |-> curr_value, best_value |-> best_value,
     improved |-> IF curr_value < best_value THEN 1 ELSE 0]

\* Lines 63-69: the record on_iteration appends; runtime is None or a float.
iteration_record(iteration, current_value, best_value, improved, runtime) ==
    [iteration |-> iteration, current_value |-> current_value,
     best_value |-> best_value, improved |-> IF improved THEN 1 ELSE 0,
     runtime |-> runtime]

\* record["runtime"] = float(val): the key is added or its value replaced.
set_runtime(record, val) ==
    [iteration |-> record.iteration, current_value |-> record.current_value,
     best_value |-> record.best_value, improved |-> record.improved,
     runtime |-> Some(val)]

\* A variant of the first loop that carries the current value over as the
\* best value instead of the minimum.
RECURSIVE load_objectives_no_min(_, _, _, _)
load_objectives_no_min(journal, objectives, i, best_value) ==
    IF i > Len(objectives) THEN journal
    ELSE load_objectives_no_min(
            Append(journal, loaded_record(i - 1, objectives[i], best_value)),
            objectives, i + 1, objectives[i])

\* Lines 33-40: the first loop, from objectives[i - 1] on (i counts from 1).
RECURSIVE load_objectives(_, _, _, _)
load_objectives(journal, objectives, i, best_value) ==
    IF i > Len(objectives) THEN journal
    ELSE load_objectives(
            Append(journal, loaded_record(i - 1, objectives[i], best_value)),
            objectives, i + 1, Min2(best_value, objectives[i]))

\* Lines 41-43: the second loop; self.iterations[i] is the record at index
\* i of the whole journal.
RECURSIVE load_runtimes(_, _, _)
load_runtimes(journal, runtimes, i) ==
    IF i > Len(runtimes) THEN journal
    ELSE load_runtimes(
            IF i - 1 < Len(journal)
            THEN [journal EXCEPT ![i] = set_runtime(@, runtimes[i])]
            ELSE journal,
            runtimes, i + 1)

\* statistics.objectives[0] of an empty list raises IndexError (line 32).
load_raises(objectives) == objectives = <<>>

load_alns_result_statistics_no_min(journal, objectives, runtimes) ==
    load_runtimes(load_objectives_no_min(journal, objectives, 1, objectives[1]),
                  runtimes, 1)

\* Callback.load_alns_result_statistics: the journal after the call.
load_alns_result_statistics(journal, objectives, runtimes) ==
    load_runtimes(load_objectives(journal, objectives, 1, objectives[1]),
                  runtimes, 1)

(***************************************************************************)
(* Specification SpecCallback: on_iteration and                            *)
(* load_alns_result_statistics called on one Callback, in any order.       *)
(***************************************************************************)
Floats == 0..MaxFloat

InitCallback ==
    /\ nodes = Instance(0, 0)
    /\ distances = InitDistances(2)
    /\ l_memo = None
    /\ route = <<0, 1>>
    /\ last = NoCall
    /\ alns = AlnsOff
    /\ OthersAtRest

\* last.out is the journal before the call, last.in the objectives.
OnIteration(iteration, current_value, best_value, improved, runtime) ==
    /\ Len(iterations) < MaxOnIteration
    /\ iterations' = Append(iterations,
            iteration_record(iteration, current_value, best_value, improved, runtime))
    /\ last' = Call("on_iteration", <<>>, <<>>, NoDraw, improved, iterations,
                    TRUE, Len(iterations), "none")
    /\ UNCHANGED <<nodes, distances, l_memo, route, alns, termination, clock,
                   rnd_seed, rnd_calls, node_order>>

LoadAlnsResultStatistics(objectives, runtimes) ==
    /\ Len(iterations) + Len(objectives) <= MaxJournal
    /\ iterations' =
          IF load_raises(objectives) THEN iterations
          ELSE load_alns_result_statistics(iterations, objectives, runtimes)
    /\ last' = Call("load_alns_result_statistics", objectives,
                    <<objectives, runtimes>>, NoDraw, FALSE, iterations,
                    ~load_raises(objectives), Len(iterations),
                    IF load_raises(objectives) THEN "IndexError" ELSE "none")
    /\ UNCHANGED <<nodes, distances, l_memo, route, alns, termination, clock,
                   rnd_seed, rnd_calls, node_order>>

NextCallback ==
    \/ /\ Idle
       /\ \E iteration \in {Len(iterations)}, current_value \in Floats,
             best_value \in Floats, improved \in BOOLEAN,
             runtime \in {None, Some(0)} :
              OnIteration(iteration, current_value, best_value, improved, runtime)
    \/ /\ Idle
       /\ \E objectives \in SeqsUpTo(Floats, MaxJournal) :
             \E runtimes \in SeqsUpTo({MaxFloat}, Len(objectives)) :
                LoadAlnsResultStatistics(objectives, runtimes)
    \/ Forget

SpecCallback == InitCallback /\ [][NextCallback]_vars

(***************************************************************************)
(* input_processing/csv_parser.py.  A file is its lines; a line is the     *)
(* list line.strip().split(",") gives, its fields being numerals.          *)
(***************************************************************************)
EXPECTED_NUM_FIELDS == 3

\* Lines 39-43: Node(id=parts[0], x=float(parts[1]), y=float(parts[2])),
\* which raises IndexError for a line of fewer than three fields.
node_raises(parts) == Len(parts) < 3
node_of(parts) == <<parts[1], parts[2], parts[3]>>

\* Lines 31-44: the loop over the lines, from the line at line_idx on.  The
\* header line is skipped; for a line with another number of fields than
\* EXPECTED_NUM_FIELDS a warning is logged (lines 35-38), and the loop body
\* goes on to build the node all the same.
RECURSIVE parse_lines(_, _, _)
parse_lines(lines, line_idx, parsed) ==
    IF line_idx >= Len(lines) THEN [exc |-> "none", nodes |-> parsed]
    ELSE IF line_idx = 0 THEN parse_lines(lines, line_idx + 1, parsed)
    ELSE IF node_raises(lines[line_idx + 1])
         THEN [exc |-> "IndexError", nodes |-> <<>>]
    ELSE parse_lines(lines, line_idx + 1,
                     Append(parsed, node_of(lines[line_idx + 1])))

\* CSVParser.parse: the exception raised and the list returned.
parse(lines) == parse_lines(lines, 0, <<>>)

(***************************************************************************)
(* Specification SpecParse: CSVParser.parse on every file of a header and  *)
(* up to MaxRows data rows of 1..MaxFields fields.                         *)
(***************************************************************************)
CsvRows == UNION {SeqsOfLen(0..MaxField, k) : k \in 1..MaxFields}

InitParse ==
    /\ nodes = Instance(0, 0)
    /\ distances = InitDistances(2)
    /\ l_memo = None
    /\ route = <<0, 1>>
    /\ last = NoCall
    /\ alns = AlnsOff
    /\ OthersAtRest

\* last.in holds the lines of the file, last.out the nodes returned.
Parse(lines) ==
    /\ last' = Call("parse", lines, <<>>, NoDraw, FALSE, parse(lines).nodes,
                    parse(lines).exc = "none", 0, parse(lines).exc)
    /\ UNCHANGED <<nodes, distances, l_memo, route, alns, other_vars>>

NextParse ==
    \/ /\ Idle
       /\ \E header \in SeqsOfLen(0..MaxField, EXPECTED_NUM_FIELDS) :
             \E rows \in SeqsUpTo(CsvRows, MaxRows) : Parse(<<header>> \o rows)
    \/ Forget

SpecParse == InitParse /\ [][NextParse]_vars

(***************************************************************************)
(* Specification SpecClosest: NodeManager.get_closest_k_nodes on managers  *)
(* whose nodes lie on a line, several of them on the same point, added in  *)
(* any order.                                                              *)
(***************************************************************************)
\* sorted(self.nodes.values(), key=...): a stable sort of the nodes in dict
\* order by the distance get_distance returns for (target_node, node).
sorted_nodes(order, nd, cache, target) ==
    LET d == [k \in 1..Len(order) |-> get_distance(nd, cache, target, order[k])]
        before(j, k) == d[j] < d[k] \/ (d[j] = d[k] /\ j < k)
        rank(k) == Cardinality({j \in 1..Len(order) : before(j, k)})
    IN  [r \in 1..Len(order) |-> order[CHOOSE k \in 1..Len(order) : rank(k) = r - 1]]

\* NodeManager.get_closest_k_nodes with a distance manager:
\* sorted_nodes[1:k + 1].
get_closest_k_nodes(order, nd, cache, target, k) ==
    Slice(sorted_nodes(order, nd, cache, target), 1, k + 1)

InitClosest ==
    \E count \in 1..MaxClosestNodes :
      \E xs \in [0..(count - 1) -> 0..MaxClosestCoord] :
        /\ nodes = [i \in 0..(count - 1) |-> <<xs[i], 0>>]
        /\ distances = InitDistances(count)
        /\ l_memo = None
        /\ route = <<>>
        /\ last = NoCall
        /\ alns = AlnsOff
        /\ termination = Termination(-1, -1, None, None, 0)
        /\ clock = 0
        /\ rnd_seed = <<DEFAULT_RND_SEED, DEFAULT_RND_SEED>>
        /\ rnd_calls = <<<<>>, <<>>>>
        /\ iterations = <<>>
        /\ node_order \in PermSeqs(0..(count - 1))

\* last.args holds <<target_node, k>>, last.out the ids returned.
GetClosestKNodes(target, k) ==
    /\ last' = Call("get_closest_k_nodes", node_order, <<target, k>>, NoDraw,
                    FALSE, get_closest_k_nodes(node_order, nodes, distances, target, k),
                    TRUE, 0, "none")
    /\ distances' = CacheAfter(nodes, distances, {<<target, id>> : id \in DOMAIN nodes})
    /\ UNCHANGED <<nodes, l_memo, route, alns, other_vars>>

NextClosest ==
    \/ /\ Idle
       /\ \E target \in DOMAIN nodes, k \in 0..MaxClosestK : GetClosestKNodes(target, k)
    \/ Forget

SpecClosest == InitClosest /\ [][NextClosest]_vars

(***************************************************************************)
(* Specification SpecValid: Route.is_valid_route on every sequence of node *)
(* ids of the small instances and on every <<0, i, j, n+1>> of the larger  *)
(* ones, and the naive seed of main with its validity check.               *)
(***************************************************************************)
\* NaiveSequencer.optimise (not among the sources; section 4.4 of the
\* spec): the managed ids in ascending order, [0, 1, ..., n, n + 1].
naive_route(nd) == [k \in 1..Cardinality(DOMAIN nd) |-> k - 1]

PairRoutes(n) == {<<0, i, j, n + 1>> : i \in 1..n, j \in 1..n}

InitValid ==
    /\ \/ \E n \in 0..MaxValidN :
             /\ nodes = Instance(n, 0)
             /\ route \in SeqsUpTo(0..(n + 1), n + 2)
       \/ \E n \in 0..MaxPairN :
             /\ nodes = Instance(n, 0)
             /\ route \in PairRoutes(n)
    /\ distances = InitDistances(Cardinality(DOMAIN nodes))
    /\ l_memo = None
    /\ last = NoCall
    /\ alns = AlnsOff
    /\ OthersAtRest

\* route.is_valid_route(node_manager).
IsValidRoute ==
    /\ last' = CallLog("is_valid_route", route, <<>>,
                       is_valid_route(route, nodes), is_valid_route_log(route, nodes))
    /\ UNCHANGED <<nodes, distances, l_memo, route, alns, other_vars>>

\* main.py, lines 104-111: build the naive route, log its objective and
\* check it with the route evaluator.
MainNaive ==
    LET seed == naive_route(nodes)
    IN  /\ route' = seed
        /\ distances' = CacheAfterObjective(nodes, distances, l_memo, seed)
        /\ l_memo' = MemoAfterObjective(nodes, distances, l_memo, seed)
        /\ last' = CallLog("main_naive", <<>>, seed,
                           RouteEvaluator_is_valid_route(seed, nodes),
                           IF RouteEvaluator_is_valid_route(seed, nodes)
                           THEN "report" ELSE "The route is invalid.")
        /\ UNCHANGED <<nodes, alns, other_vars>>

NextValid ==
    \/ Idle /\ IsValidRoute
    \/ Idle /\ MainNaive
    \/ Forget

SpecValid == InitValid /\ [][NextValid]_vars

(***************************************************************************)
(* Specification SpecObjective: Route.calculate_objective_value on every   *)
(* sequence of node ids, one evaluation after the other on the same node   *)
(* and distance managers.  The route evaluated is an argument of the call; *)
(* the caller holds none.                                                  *)
(***************************************************************************)
InitObjective ==
    \E n \in 0..MaxObjN, g \in 0..MaxObjLayout :
        /\ nodes = Instance(n, g)
        /\ distances = InitDistances(n + 2)
        /\ l_memo = None
        /\ route = <<>>
        /\ last = NoCall
        /\ alns = AlnsOff
        /\ OthersAtRest

\* Route(r).calculate_objective_value(node_manager, distance_manager).
CalculateObjective(r) ==
    /\ last' =
        IF ObjectiveRaises(r)
        THEN Call("calculate_objective_value", r, <<>>, NoDraw, FALSE,
                  <<>>, FALSE, 0, "ValueError")
        ELSE Call("calculate_objective_value", r, <<>>, NoDraw, FALSE, <<>>, TRUE,
                  calculate_objective_value(nodes, distances, l_memo, r), "none")
    /\ distances' = CacheAfterObjective(nodes, distances, l_memo, r)
    /\ l_memo' = MemoAfterObjective(nodes, distances, l_memo, r)
    /\ UNCHANGED <<nodes, route, alns, other_vars>>

NextObjective ==
    \/ /\ Idle
       /\ \E r \in SeqsUpTo(DOMAIN nodes, Cardinality(DOMAIN nodes)) :
              CalculateObjective(r)
    \/ Forget

SpecObjective == InitObjective /\ [][NextObjective]_vars

(***************************************************************************)
(* Specification SpecDistance: EuclidianDistanceManager.get_distance on    *)
(* every pair of nodes, in both orders, one query after the other on the   *)
(* same manager.                                                           *)
(***************************************************************************)
InitDistance ==
    \E n \in 0..MaxDistN, g \in 0..MaxLayout :
        /\ nodes = Instance(n, g)
        /\ distances = InitDistances(n + 2)
        /\ l_memo = None
        /\ route = <<>>
        /\ last = NoCall
        /\ alns = AlnsOff
        /\ OthersAtRest

\* distance_manager.get_distance(node a, node b): val is the value
\* returned, and the key is stored when it was missing.
GetDistance(a, b) ==
    /\ last' = Call("get_distance", <<>>, <<a, b>>, NoDraw, FALSE, <<>>, TRUE,
                    get_distance(nodes, distances, a, b), "none")
    /\ distances' = CacheAfter(nodes, distances, {<<a, b>>})
    /\ UNCHANGED <<nodes, l_memo, route, alns, other_vars>>

NextDistance ==
    \/ /\ Idle
       /\ \E a \in DOMAIN nodes, b \in DOMAIN nodes : GetDistance(a, b)
    \/ Forget

SpecDistance == InitDistance /\ [][NextDistance]_vars

(***************************************************************************)
(* Specification SpecBalance: the objective of every tour of an instance,  *)
(* on the layout family and on the instances whose nodes sit on two sites  *)
(* one unit apart.                                                         *)
(***************************************************************************)
\* The nodes of the set S at (1, 0), the others at (0, 0).
TwoSiteInstance(n, S) ==
    [i \in 0..(n + 1) |-> IF i \in S THEN <<1, 0>> ELSE <<0, 0>>]

InitBalance ==
    /\ \E n \in 2..MaxBalanceN :
          \/ \E g \in 0..MaxLayout : nodes = Instance(n, g)
          \/ \E S \in SUBSET (0..(n + 1)) : nodes = TwoSiteInstance(n, S)
    /\ distances = InitDistances(Cardinality(DOMAIN nodes))
    /\ l_memo = None
    /\ route = <<>>
    /\ last = NoCall
    /\ alns = AlnsOff
    /\ OthersAtRest

NextBalance ==
    \/ /\ Idle
       /\ \E r \in TourRoutes(NumIntermediate(nodes)) : CalculateObjective(r)
    \/ Forget

SpecBalance == InitBalance /\ [][NextBalance]_vars

(***************************************************************************)
(* Specification SpecMemo: NodeManager.add_node between evaluations of the *)
(* objective, on the same node manager and distance manager, so that       *)
(* get_l_value is called again with the arguments it has memoised.         *)
(***************************************************************************)
InitMemo ==
    \E n \in 0..1, g \in 0..1 :
        /\ nodes = Instance(n, g)
        /\ distances = InitDistances(n + 2)
        /\ l_memo = None
        /\ route = <<>>
        /\ last = NoCall
        /\ alns = AlnsOff
        /\ OthersAtRest

\* node_manager.add_node(Node(id, x, y)) for the next free id:
\* self.nodes[node.id] = node.
AddNode(id, x, y) ==
    /\ id \notin DOMAIN nodes
    /\ Cardinality(DOMAIN nodes) < MaxMemoNodes
    /\ nodes' = [i \in (DOMAIN nodes) \cup {id} |->
                    IF i = id THEN <<x, y>> ELSE nodes[i]]
    /\ last' = Call("add_node", <<>>, <<id, x, y>>, NoDraw, FALSE, <<>>, TRUE, 0, "none")
    /\ UNCHANGED <<distances, l_memo, route, alns, other_vars>>

NextMemo ==
    \/ /\ Idle
       /\ \E x \in 0..MaxMemoCoord, y \in 0..MaxMemoCoord :
              AddNode(Cardinality(DOMAIN nodes), x, y)
    \/ /\ Idle
       /\ \E r \in TourRoutes(NumIntermediate(nodes)) : CalculateObjective(r)
    \/ Forget

SpecMemo == InitMemo /\ [][NextMemo]_vars

(***************************************************************************)
(* optimiser/iterative/termination.py.  Seconds are whole numbers.         *)
(***************************************************************************)
\* should_terminate raises TypeError at iteration_count >= max_iterations
\* (line 44) when the iteration count is omitted and the line is reached
\* with max_iterations > 0.
should_terminate_raises(t, now, iteration_count) ==
    /\ ~(t.max_iterations < 0 /\ t.max_seconds < 0)
    /\ ~(t.max_seconds > 0 /\ now - t.start_time >= t.max_seconds)
    /\ t.max_iterations > 0
    /\ IsNone(iteration_count)

\* Termination.should_terminate(iteration_count, value) at time now, when
\* it does not raise.
should_terminate(t, now, iteration_count, value) ==
    LET elapsed_time == now - t.start_time
    IN  IF t.max_iterations < 0 /\ t.max_seconds < 0 THEN FALSE
        ELSE IF t.max_seconds > 0 /\ elapsed_time >= t.max_seconds THEN TRUE
        ELSE IF t.max_iterations > 0 /\ iteration_count[1] >= t.max_iterations THEN TRUE
        ELSE IF ~IsNone(value) /\ ~IsNone(t.min_value) /\ value[1] <= t.min_value[1]
             THEN TRUE
        ELSE IF ~IsNone(value) /\ ~IsNone(t.max_value) /\ value[1] >= t.max_value[1]
             THEN TRUE
        ELSE FALSE

(***************************************************************************)
(* Specification SpecTermination: a Termination object of every            *)
(* configuration, asked at every time with every iteration count and       *)
(* value, and reset.                                                       *)
(***************************************************************************)
\* An optional number: omitted, or one of 0..k.
Optional(k) == {None} \cup {Some(v) : v \in 0..k}

InitTermination ==
    /\ nodes = Instance(0, 0)
    /\ distances = InitDistances(2)
    /\ l_memo = None
    /\ route = <<>>
    /\ last = NoCall
    /\ alns = AlnsOff
    /\ clock = 0
    /\ rnd_seed = <<DEFAULT_RND_SEED, DEFAULT_RND_SEED>>
    /\ rnd_calls = <<<<>>, <<>>>>
    /\ iterations = <<>>
    /\ node_order = <<>>
    /\ \E max_iterations \in (-1)..MaxBudget, max_seconds \in (-1)..MaxBudget,
          min_value \in Optional(MaxValue), max_value \in Optional(MaxValue) :
          termination = Termination(max_iterations, max_seconds, min_value, max_value, 0)

\* A second passes.
Tick ==
    /\ clock < MaxClock
    /\ clock' = clock + 1
    /\ UNCHANGED <<nodes, distances, l_memo, route, last, alns, termination, rnd_seed, rnd_calls, iterations, node_order>>

\* termination.reset(): the start time is sampled again.
Reset ==
    /\ termination' = [termination EXCEPT !.start_time = clock]
    /\ last' = Call("reset", <<>>, <<>>, NoDraw, FALSE, <<>>, TRUE, 0, "none")
    /\ UNCHANGED <<nodes, distances, l_memo, route, alns, clock, rnd_seed, rnd_calls, iterations, node_order>>

\* termination.should_terminate(iteration_count, value): ok is the value
\* returned.
ShouldTerminate(iteration_count, value) ==
    /\ last' =
        IF should_terminate_raises(termination, clock, iteration_count)
        THEN Call("should_terminate", <<>>, <<iteration_count, value>>, NoDraw,
                  FALSE, <<>>, FALSE, 0, "TypeError")
        ELSE Call("should_terminate", <<>>, <<iteration_count, value>>, NoDraw,
                  FALSE, <<>>,
                  should_terminate(termination, clock, iteration_count, value),
                  0, "none")
    /\ UNCHANGED <<nodes, distances, l_memo, route, alns, other_vars>>

NextTermination ==
    \/ Idle /\ Tick
    \/ Idle /\ Reset
    \/ /\ Idle
       /\ \E iteration_count \in Optional(MaxBudget + 1), value \in Optional(MaxValue) :
              ShouldTerminate(iteration_count, value)
    \/ Forget

SpecTermination == InitTermination /\ [][NextTermination]_vars

(***************************************************************************)
(* optimiser/iterative/alns_wrapper.py.  SolutionState.edges is a dict     *)
(* from node to successor; a dict keeps its keys in insertion order, so    *)
(* it is a sequence of <<key, value>> pairs.  Nodes are their ids.         *)
(***************************************************************************)
dict_keys(d) == {d[k][1] : k \in 1..Len(d)}
dict_values(d) == {d[k][2] : k \in 1..Len(d)}

\* No value under a key.
NoEntry == -1

\* The dict of a state with len nodes as a table: the value under the key
\* id at index id + 1, NoEntry for an id the dict does not hold.
RECURSIVE dict_map_from(_, _, _)
dict_map_from(d, k, table) ==
    IF k > Len(d) THEN table
    ELSE dict_map_from(d, k + 1, [table EXCEPT ![d[k][1] + 1] = d[k][2]])

dict_map(d, len) == dict_map_from(d, 1, [i \in 1..len |-> NoEntry])

\* key in d, and d[key], on the table.
HasEntry(table, key) == table[key + 1] # NoEntry
Entry(table, key) == table[key + 1]

\* del d[key] for every key of the set keys.
dict_del(d, keys) ==
    LET keep(p) == p[1] \notin keys
    IN  SelectSeq(d, keep)

\* d[key] = value: in place for a key the dict holds, else at the end.
dict_set(d, key, value) ==
    IF key \in dict_keys(d)
    THEN [k \in 1..Len(d) |-> IF d[k][1] = key THEN <<key, value>> ELSE d[k]]
    ELSE Append(d, <<key, value>>)

\* float("inf") is the empty tuple; a finite objective v is <<v>>.
PyInf == <<>>

\* A variant of the order: infinity below every objective.
ObjLess_inf_first(a, b) == a = PyInf \/ (b # PyInf /\ a[1] < b[1])

\* a < b on objectives.
ObjLess(a, b) == a # PyInf /\ (b = PyInf \/ a[1] < b[1])

\* SolutionState.__init__: the successor of every node of the sequence,
\* and the closing edge from the last node to the first.
SolutionState_edges(seq) ==
    dict_set([idx \in 1..(Len(seq) - 1) |-> <<seq[idx], seq[idx + 1]>>],
             seq[Len(seq)], seq[1])

\* _reconstruct_sequence: the walk from nodes[0] along the edges, succ
\* being the edges as a table and visited the nodes of the sequence.
RECURSIVE reconstruct_walk(_, _, _, _, _)
reconstruct_walk(len, succ, sequence, visited_nodes, curr_node) ==
    IF Len(sequence) >= len THEN sequence
    ELSE IF curr_node \in visited_nodes THEN sequence
    ELSE IF ~HasEntry(succ, curr_node) THEN Append(sequence, curr_node)
    ELSE reconstruct_walk(len, succ, Append(sequence, curr_node),
                          visited_nodes \cup {curr_node}, Entry(succ, curr_node))

\* A variant that returns the walk however short it is.
reconstruct_sequence_partial(ns, edges) ==
    reconstruct_walk(Len(ns), dict_map(edges, Len(ns)), <<>>, {}, ns[1])

reconstruct_sequence(ns, edges) ==
    LET sequence == reconstruct_walk(Len(ns), dict_map(edges, Len(ns)), <<>>, {}, ns[1])
    IN  IF Len(sequence) = Len(ns) THEN sequence ELSE <<>>

\* SolutionState.to_route: the sequence of the route.
to_route(ns, edges) == reconstruct_sequence(ns, edges)

\* SolutionState.objective.
SolutionState_objective(ns, edges, nd, cache, memo) ==
    LET sequence == reconstruct_sequence(ns, edges)
    IN  IF Len(edges) # Len(ns) THEN PyInf
        ELSE IF sequence = <<>> THEN PyInf
        ELSE Some(RouteEvaluator_calculate_objective_value(nd, cache, memo, sequence))

\* edges_to_remove: int(len(state.edges) * DEGREE_OF_DESTRUCTION), the
\* degree of destruction being 0.1.
edges_to_remove(edges) == Len(edges) \div 10

\* A variant of worst_removal that deletes one edge more.
worst_removal_one_more(edges, nd) ==
    LET dist == [k \in 1..Len(edges) |->
                    calculate_distance(nd, edges[k][1], edges[k][2])]
        before(j, k) == dist[j] > dist[k] \/ (dist[j] = dist[k] /\ j < k)
        rank(k) == Cardinality({j \in 1..Len(edges) : before(j, k)})
        removed == {edges[k][1] : k \in {j \in 1..Len(edges) : rank(j) <= edges_to_remove(edges)}}
    IN  dict_del(edges, removed)

\* worst_removal: the first num_to_remove edges of the edges sorted by
\* distance, longest first (a stable sort: equal distances stay in dict
\* order), are deleted.
worst_removal(edges, nd) ==
    LET dist == [k \in 1..Len(edges) |->
                    calculate_distance(nd, edges[k][1], edges[k][2])]
        before(j, k) == dist[j] > dist[k] \/ (dist[j] = dist[k] /\ j < k)
        rank(k) == Cardinality({j \in 1..Len(edges) : before(j, k)})
        num_to_remove == edges_to_remove(edges)
        removed == {edges[k][1] : k \in {j \in 1..Len(edges) : rank(j) < num_to_remove}}
    IN  IF edges = <<>> THEN edges ELSE dict_del(edges, removed)

\* path_removal: from nodes[node_idx], delete the outgoing edge and move
\* to its head, num_to_remove times or until a node has no outgoing edge.
\* The keys the loop deletes, succ being the edges as a table.
RECURSIVE path_removal_loop(_, _, _, _)
path_removal_loop(succ, removed, curr_node, left) ==
    IF left = 0 \/ ~HasEntry(succ, curr_node) \/ curr_node \in removed THEN removed
    ELSE path_removal_loop(succ, removed \cup {curr_node},
                           Entry(succ, curr_node), left - 1)

path_removal(ns, edges, node_idx) ==
    IF Len(ns) < 3 THEN edges
    ELSE dict_del(edges,
            path_removal_loop(dict_map(edges, Len(ns)), {}, ns[node_idx + 1],
                              edges_to_remove(edges)))

\* The node indices path_removal can draw: rng.choice(len(nodes)), drawn
\* only when there are 3 nodes or more.
PathDraws(ns) == IF Len(ns) < 3 THEN {0} ELSE 0..(Len(ns) - 1)

\* The subsets of S with k elements.
RECURSIVE SubsetsOfSize(_, _)
SubsetsOfSize(S, k) ==
    IF k = 0 THEN {{}}
    ELSE UNION {{T \cup {x} : T \in SubsetsOfSize({y \in S : y > x}, k - 1)} : x \in S}

\* The index sets random_removal can draw: rng.choice(len(nodes),
\* min(num_to_remove, len(nodes)), replace=False).
RandomDraws(ns, edges) ==
    SubsetsOfSize(0..(Len(ns) - 1), Min2(edges_to_remove(edges), Len(ns)))

\* random_removal: the outgoing edge of every drawn node is deleted.
random_removal(ns, edges, node_indices) ==
    dict_del(edges, {ns[idx + 1] : idx \in node_indices})

\* would_form_subcycle(from_node, to_node, state), succ being the edges of
\* the state as a table.
RECURSIVE subcycle_loop(_, _, _, _, _)
subcycle_loop(from_node, to_node, len, succ, step) ==
    IF step > len - 1 THEN FALSE
    ELSE IF ~HasEntry(succ, to_node) THEN FALSE
    ELSE IF from_node = Entry(succ, to_node) /\ step # len - 1 THEN TRUE
    ELSE subcycle_loop(from_node, Entry(succ, to_node), len, succ, step + 1)

\* A variant without the exemption of the last step.
RECURSIVE subcycle_loop_every_step(_, _, _, _, _)
subcycle_loop_every_step(from_node, to_node, len, succ, step) ==
    IF step > len - 1 THEN FALSE
    ELSE IF ~HasEntry(succ, to_node) THEN FALSE
    ELSE IF from_node = Entry(succ, to_node) THEN TRUE
    ELSE subcycle_loop_every_step(from_node, Entry(succ, to_node), len, succ, step + 1)

would_form_subcycle_every_step(from_node, to_node, ns, succ) ==
    subcycle_loop_every_step(from_node, to_node, Len(ns), succ, 1)

would_form_subcycle(from_node, to_node, ns, succ) ==
    subcycle_loop(from_node, to_node, Len(ns), succ, 1)

\* The orphaned nodes of greedy_repair, in the order of nodes.
orphaned_nodes(ns, edges) ==
    LET orphan(x) == x \notin dict_keys(edges)
    IN  SelectSeq(ns, orphan)

\* A variant of the candidates: every admissible node, visited or not.
repair_candidates_all_admissible(orphan, ns, succ, visited, nd) ==
    LET others == {ns[k] : k \in 1..Len(ns)} \ {orphan}
    IN  {other \in others : is_edge_valid(orphan, other, NumIntermediate(nd))}

\* The candidates of one orphan (lines 202-216), the fallback included;
\* succ is current.edges as a table.
repair_candidates(orphan, ns, succ, visited, nd) ==
    LET n == NumIntermediate(nd)
        others == {ns[k] : k \in 1..Len(ns)} \ {orphan}
        first == {other \in others :
                    /\ other \notin visited \/ other = ns[1]
                    /\ ~would_form_subcycle(orphan, other, ns, succ)
                    /\ is_edge_valid(orphan, other, n)}
    IN  IF first # {} THEN first
        ELSE {other \in others : is_edge_valid(orphan, other, n)}

\* The loop of greedy_repair over the shuffled orphans: the edge dicts it
\* can end with.  The candidates are a set, and min() returns the nearest
\* it meets first; the order a set is iterated in follows the hashes of
\* its members, so any of several candidates at the same distance can be
\* the one returned.
RECURSIVE repair_loop(_, _, _, _, _)
repair_loop(orphans, ns, edges, visited, nd) ==
    IF orphans = <<>> THEN {edges}
    ELSE LET orphan == Head(orphans)
             candidates == repair_candidates(orphan, ns, dict_map(edges, Len(ns)),
                                             visited, nd)
             d == [other \in candidates |-> calculate_distance(nd, orphan, other)]
             nearest == {c \in candidates : \A o \in candidates : d[c] <= d[o]}
         IN  IF candidates = {}
             THEN repair_loop(Tail(orphans), ns, edges, visited, nd)
             ELSE UNION {repair_loop(Tail(orphans), ns,
                                     Append(edges, <<orphan, c>>),
                                     visited \cup {c}, nd) : c \in nearest}

\* The orders rng.permutation can put the orphans in; no draw is made when
\* there is no orphan.
RepairDraws(ns, edges) ==
    LET orphans == orphaned_nodes(ns, edges)
    IN  PermSeqs({orphans[k] : k \in 1..Len(orphans)})

\* greedy_repair: the edge dicts it can return for a shuffle of the orphans.
greedy_repair(ns, edges, shuffled, nd) ==
    repair_loop(shuffled, ns, edges, dict_values(edges), nd)

(***************************************************************************)
(* Specification SpecALNS: ALNSWrapper.add_seed_route and optimise on a    *)
(* valid seed.  ALNS.iterate and LateAcceptanceHillClimbing belong to the  *)
(* alns library; they follow section 4.8 of the spec: destroy, repair,     *)
(* late acceptance, the best solution tracked apart, and a stop by wall    *)
(* clock, which can come before any iteration.                             *)
(***************************************************************************)
LOOKBACK_PERIOD == 10

\* The seed with the even intermediates in ascending order, then the odd
\* ones: no transition of it is forbidden, whatever n.
even_odd_seed(n) ==
    LET evens == n \div 2
    IN  [k \in 1..(n + 2) |->
            IF k = 1 THEN 0
            ELSE IF k = n + 2 THEN n + 1
            ELSE IF k - 1 <= evens THEN 2 * (k - 1)
            ELSE 2 * (k - 1 - evens) - 1]

\* The valid seeds of the instances with n intermediates: every valid tour
\* of a small instance, the even-odd seed of a large one.
AlnsSeeds(n) ==
    IF n <= MaxAlnsSmallN
    THEN {s \in TourRoutes(n) : RouteEvaluator_is_valid_route(s, Instance(n, 0))}
    ELSE {even_odd_seed(n)}

\* The instance of a seed: the nodes lie on a line in the order of the
\* seed, one unit apart, but for the end depot, which lies between the
\* last two intermediates.
AlnsInstance(seed) ==
    LET len == Len(seed)
        position(i) == CHOOSE k \in 1..len : seed[k] = i
        x(k) == IF k = len THEN len - 2 ELSE IF k = len - 1 THEN len - 1 ELSE k - 1
    IN  [i \in 0..(len - 1) |-> <<x(position(i)), 0>>]

InitALNS ==
    \E n \in (1..MaxAlnsSmallN) \cup {AlnsMediumN, AlnsLargeN} :
        \E seed \in AlnsSeeds(n) :
            /\ nodes = AlnsInstance(seed)
            /\ distances = InitDistances(n + 2)
            /\ l_memo = None
            /\ route = seed
            /\ last = NoCall
            /\ alns = AlnsOff
            /\ OthersAtRest

\* add_seed_route(route) and the start of optimise: iterate takes the
\* objective of the initial solution, which is the current and the best.
\* The initial solution holds the distance manager of the wrapper; every
\* other solution state is made by copy.deepcopy in a destroy operator and
\* holds a copy of the manager of the state it was copied from:
\* curr_cache, best_cache and work_cache are the distances of the managers
\* of the current, the best and the candidate state.
AddSeedRouteAndStart ==
    /\ alns.pc = "off"
    /\ alns' = [pc |-> "select", nodes |-> route,
                curr |-> SolutionState_edges(route),
                best |-> SolutionState_edges(route),
                curr_obj |-> SolutionState_objective(route, SolutionState_edges(route),
                                                     nodes, distances, l_memo),
                best_obj |-> SolutionState_objective(route, SolutionState_edges(route),
                                                     nodes, distances, l_memo),
                work |-> <<>>, hist |-> <<>>, iterations |-> 0,
                curr_cache |-> CacheAfterObjective(nodes, distances, l_memo, route),
                best_cache |-> CacheAfterObjective(nodes, distances, l_memo, route),
                work_cache |-> <<>>]
    /\ distances' = CacheAfterObjective(nodes, distances, l_memo, route)
    /\ l_memo' = MemoAfterObjective(nodes, distances, l_memo, route)
    /\ UNCHANGED <<nodes, route, last, other_vars>>

\* A destroy operator leaves its result, a deep copy of the current state
\* with edges deleted, to the repair operator.
Destroyed(edges) ==
    /\ alns' = [alns EXCEPT !.pc = "destroyed", !.work = edges,
                            !.work_cache = alns.curr_cache]
    /\ UNCHANGED <<nodes, distances, l_memo, route, last, other_vars>>

\* The stop criterion has not ended the run: the wall clock allows fewer
\* iterations on a large instance.
CanIterate ==
    /\ alns.pc = "select"
    /\ alns.iterations < IF Len(alns.nodes) >= AlnsLargeN + 2
                         THEN MaxAlnsLargeIterations ELSE MaxAlnsIterations

RandomRemoval ==
    /\ CanIterate
    /\ \E node_indices \in RandomDraws(alns.nodes, alns.curr) :
          Destroyed(random_removal(alns.nodes, alns.curr, node_indices))

PathRemoval ==
    /\ CanIterate
    /\ \E node_idx \in PathDraws(alns.nodes) :
          Destroyed(path_removal(alns.nodes, alns.curr, node_idx))

WorstRemoval ==
    /\ CanIterate
    /\ Destroyed(worst_removal(alns.curr, nodes))

GreedyRepair ==
    /\ alns.pc = "destroyed"
    /\ \E shuffled \in RepairDraws(alns.nodes, alns.work) :
          \E repaired \in greedy_repair(alns.nodes, alns.work, shuffled, nodes) :
              alns' = [alns EXCEPT !.pc = "repaired", !.work = repaired]
    /\ UNCHANGED <<nodes, distances, l_memo, route, last, other_vars>>

\* The objective of the candidate with the edge dict edges, taken with its
\* own distance manager.
AlnsObjective(edges) ==
    SolutionState_objective(alns.nodes, edges, nodes, alns.work_cache, l_memo)

\* The distances of the candidate's manager after its objective was taken:
\* an incomplete candidate is not evaluated.
AlnsCacheAfterObjective(edges) ==
    IF AlnsObjective(edges) = PyInf THEN alns.work_cache
    ELSE CacheAfter(nodes, alns.work_cache,
                    ConsecutivePairs(reconstruct_sequence(alns.nodes, edges)))

\* iterate's evaluation of the candidate: late acceptance against the
\* oldest objective of the look-back window (the current one at the first
\* iteration); a candidate better than the best becomes best and current,
\* an accepted one current.  curr_obj and best_obj are the objectives of
\* the current and of the best solution.
EvalCand ==
    /\ alns.pc = "repaired"
    /\ LET cand == AlnsObjective(alns.work)
           curr == alns.curr_obj
           best == alns.best_obj
           accepted == IF alns.hist = <<>> THEN ObjLess(cand, curr)
                       ELSE ObjLess(cand, alns.hist[1])
           hist == Append(alns.hist, curr)
           is_best == ObjLess(cand, best)
           cand_cache == AlnsCacheAfterObjective(alns.work)
       IN  /\ alns' = [alns EXCEPT
                  !.pc = "select",
                  !.best = IF is_best THEN alns.work ELSE alns.best,
                  !.best_obj = IF is_best THEN cand ELSE best,
                  !.curr = IF is_best \/ accepted THEN alns.work ELSE alns.curr,
                  !.curr_obj = IF is_best \/ accepted THEN cand ELSE curr,
                  !.work = <<>>,
                  !.work_cache = cand_cache,
                  !.best_cache = IF is_best THEN cand_cache ELSE alns.best_cache,
                  !.curr_cache = IF is_best \/ accepted THEN cand_cache
                                 ELSE alns.curr_cache,
                  !.hist = IF Len(hist) > LOOKBACK_PERIOD THEN Tail(hist) ELSE hist,
                  !.iterations = alns.iterations + 1]
    /\ UNCHANGED <<nodes, distances, l_memo, route, last, other_vars>>

\* The stop criterion ends iterate; optimise returns the best state as a
\* route.
OptimiseReturn ==
    /\ alns.pc = "select"
    /\ alns' = [alns EXCEPT !.pc = "done"]
    /\ last' = Call("optimise", alns.nodes, <<>>, NoDraw, FALSE,
                    to_route(alns.nodes, alns.best),
                    alns.best # SolutionState_edges(alns.nodes),
                    alns.iterations, "none")
    /\ UNCHANGED <<nodes, distances, l_memo, route, other_vars>>

NextALNS ==
    \/ AddSeedRouteAndStart
    \/ RandomRemoval
    \/ PathRemoval
    \/ WorstRemoval
    \/ GreedyRepair
    \/ EvalCand
    \/ OptimiseReturn

SpecALNS == InitALNS /\ [][NextALNS]_vars

(***************************************************************************)
(* Specifications SpecRepair and SpecEdges, on the states of small         *)
(* instances, whatever edges are left in them.  SpecRepair: greedy_repair  *)
(* and iterate's evaluation of the repaired candidate; the run is under    *)
(* way, and the objective of its current and best solution is drawn.       *)
(* SpecEdges: would_form_subcycle and SolutionState.objective.             *)
(***************************************************************************)
\* The nodes of the state with count nodes, in the order of their ids.
NodesInOrder(count) == [k \in 1..count |-> k - 1]

\* The edge dicts over count nodes: a node has no successor or any other
\* node as its successor; the keys are in ascending order.
EdgeDicts(count) ==
    LET tables == {t \in [0..(count - 1) -> (-1)..(count - 1)] :
                      \A i \in 0..(count - 1) : t[i] # i}
        held(p) == p[2] # NoEntry
    IN  {SelectSeq([k \in 1..count |-> <<k - 1, t[k - 1]>>], held) : t \in tables}

\* The objectives a run can have for its current and its best solution.
RunObjectives == {Some(1000 * v) : v \in 0..MaxRunObjective}

InitRepair ==
    \E count \in 1..MaxRepairNodes :
        \E ns \in {NodesInOrder(count)} :
            \E edges \in EdgeDicts(count) :
                \E curr_obj \in RunObjectives :
                    \E best_obj \in {curr_obj} :
                        /\ nodes = Instance(count - 2, 0)
                        /\ distances = InitDistances(count)
                        /\ l_memo = None
                        /\ route = ns
                        /\ last = NoCall
                        /\ alns = [pc |-> "destroyed", nodes |-> ns,
                                   curr |-> SolutionState_edges(ns),
                                   best |-> SolutionState_edges(ns),
                                   curr_obj |-> curr_obj, best_obj |-> best_obj,
                                   work |-> edges, hist |-> <<>>, iterations |-> 0,
                                   curr_cache |-> InitDistances(count),
                                   best_cache |-> InitDistances(count),
                                   work_cache |-> InitDistances(count)]
                        /\ OthersAtRest

\* would_form_subcycle(from_node, to_node, state) on the candidate.
WouldFormSubcycle(from_node, to_node) ==
    /\ Idle
    /\ last' = Call("would_form_subcycle", alns.work, <<from_node, to_node>>, NoDraw,
                    FALSE, <<>>,
                    would_form_subcycle(from_node, to_node, alns.nodes,
                                        dict_map(alns.work, Len(alns.nodes))),
                    0, "none")
    /\ UNCHANGED <<nodes, distances, l_memo, route, alns, other_vars>>

\* state.objective() on the candidate.
StateObjective ==
    /\ Idle
    /\ last' = Call("objective", alns.work, <<>>, NoDraw, FALSE,
                    AlnsObjective(alns.work), FALSE, 0, "none")
    /\ alns' = [alns EXCEPT !.work_cache = AlnsCacheAfterObjective(alns.work)]
    /\ UNCHANGED <<nodes, distances, l_memo, route, other_vars>>

NextRepair ==
    \/ GreedyRepair
    \/ EvalCand

SpecRepair == InitRepair /\ [][NextRepair]_vars

InitEdges == InitRepair /\ alns.curr_obj = Some(0)

NextEdges ==
    \/ \E from_node, to_node \in DOMAIN nodes : WouldFormSubcycle(from_node, to_node)
    \/ StateObjective
    \/ Forget

SpecEdges == InitEdges /\ [][NextEdges]_vars

(***************************************************************************)
(* Specification SpecDestroy: the three destroy operators on complete      *)
(* states of an instance large enough for edges to be removed: the tour    *)
(* in the order of the ids, and that tour with the successor of its        *)
(* second node set to a node a few places before or after it.              *)
(***************************************************************************)
\* The complete states: every node has a successor.
CompleteStates(ns) ==
    LET len == Len(ns)
        places == {k \in 1..len : k # 2 /\ (k - 2 <= MaxRedirect \/ k - 2 >= len - MaxRedirect)}
    IN  {dict_set(SolutionState_edges(ns), ns[2], ns[k]) : k \in places}

InitDestroy ==
    \E ns \in {NodesInOrder(DestroyNodes)} :
        \E edges \in CompleteStates(ns) :
            /\ nodes = Instance(DestroyNodes - 2, 0)
            /\ distances = InitDistances(DestroyNodes)
            /\ l_memo = None
            /\ route = ns
            /\ last = NoCall
            /\ alns = [pc |-> "select", nodes |-> ns,
                       curr |-> edges, best |-> edges,
                       curr_obj |-> PyInf, best_obj |-> PyInf,
                       work |-> <<>>, hist |-> <<>>, iterations |-> 0,
                       curr_cache |-> InitDistances(DestroyNodes),
                       best_cache |-> InitDistances(DestroyNodes),
                       work_cache |-> <<>>]
            /\ OthersAtRest

NextDestroy ==
    \/ RandomRemoval
    \/ PathRemoval
    \/ WorstRemoval

SpecDestroy == InitDestroy /\ [][NextDestroy]_vars

(***************************************************************************)
(* Specification SpecCache: the ALNS run on the small and the medium       *)
(* instances, with get_distance and calculate_objective_value called on    *)
(* the managers of the wrapper before and after the run.                   *)
(***************************************************************************)
InitCache ==
    \E n \in (1..MaxAlnsSmallN) \cup {AlnsMediumN} :
        \E seed \in AlnsSeeds(n) :
            /\ nodes = AlnsInstance(seed)
            /\ distances = InitDistances(n + 2)
            /\ l_memo = None
            /\ route = seed
            /\ last = NoCall
            /\ alns = AlnsOff
            /\ OthersAtRest

\* The caller is outside optimise, on an instance small enough for direct
\* calls.
OutsideRun ==
    /\ Idle
    /\ alns.pc \in {"off", "done"}
    /\ NumIntermediate(nodes) <= MaxCacheN

NextCache ==
    \/ NextALNS
    \/ /\ OutsideRun
       /\ \E a \in DOMAIN nodes, b \in DOMAIN nodes : GetDistance(a, b)
    \/ /\ OutsideRun
       /\ \E r \in TourRoutes(NumIntermediate(nodes)) : CalculateObjective(r)
    \/ Forget

SpecCache == InitCache /\ [][NextCache]_vars


(***************************************************************************)
(* Properties.                                                             *)
(***************************************************************************)
\* A route of the instance with its depots in place: n + 2 nodes, depot 0
\* first and depot n + 1 last.
DepotsInPlace(seq, nd) ==
    /\ Len(seq) = NumIntermediate(nd) + 2
    /\ seq[1] = 0
    /\ seq[Len(seq)] = NumIntermediate(nd) + 1

\* The objective of a route with the distance cache and the memo as they
\* are in the state.
Objective(seq) ==
    RouteEvaluator_calculate_objective_value(nodes, distances, l_memo, seq)

\* The legal parameter space of relocate on a route of the given length:
\* 1 <= v1 <= v2 <= len - 2, insert_pos in [0, len - segment_length) and
\* outside [v1, v2].
LegalMoves(len) ==
    {m \in (1..(len - 2)) \X (1..(len - 2)) \X (0..(len - 1)) :
        /\ m[1] <= m[2]
        /\ m[3] < len - (m[2] - m[1] + 1)
        /\ ~(m[1] <= m[3] /\ m[3] <= m[2])}

\* The legal moves a search with the given only_valid takes into account.
SearchSpace(seq, only_valid) ==
    {m \in LegalMoves(Len(seq)) :
        ~only_valid \/ RouteEvaluator_is_valid_route(candidate(seq, m), nodes)}

Improving(seq, only_valid) ==
    {m \in SearchSpace(seq, only_valid) : Objective(candidate(seq, m)) < Objective(seq)}

\* C1: a route with its depots in place, passed to Relocate.apply with any
\* arguments, comes back with n + 2 nodes, depot 0 first and depot n + 1
\* last.
C1_ApplyKeepsDepots ==
    (last.op = "apply" /\ DepotsInPlace(last.in, nodes))
        => DepotsInPlace(last.out, nodes)

\* C2: the route Relocate.apply returns holds the same multiset of node
\* ids as the route passed in, whether the move was made or rejected.
C2_ApplyPreservesMultiset ==
    last.op = "apply" =>
        /\ BagOfSeq(last.out) = BagOfSeq(last.in)
        /\ Len(last.out) = Len(last.in)

\* C2 witness: a segment of two or more nodes was moved and the route
\* changed.
C2_Witness ==
    /\ last.op = "apply"
    /\ last.ok
    /\ last.out # last.in
    /\ ~IsNone(last.args[1]) /\ ~IsNone(last.args[2])
    /\ last.args[1][1] < last.args[2][1]

\* C3: apply_best_improvement returns a route whose objective is at most
\* that of the route passed in, equal exactly when no legal move improves,
\* and the least over the legal moves when one improves.
C3_BestImprovementIsBest ==
    (last.op = "apply_best_improvement" /\ last.exc = "none") =>
        /\ Objective(last.out) <= Objective(last.in)
        /\ (Objective(last.out) = Objective(last.in))
              <=> (Improving(last.in, last.flag) = {})
        /\ Improving(last.in, last.flag) # {} =>
              \A m \in SearchSpace(last.in, last.flag) :
                  Objective(last.out) <= Objective(candidate(last.in, m))

\* The first legal move, in the order v1, v2, insert_pos ascending, whose
\* candidate improves on the route.
FirstImproving(seq, only_valid) ==
    CHOOSE m \in Improving(seq, only_valid) :
        \A o \in Improving(seq, only_valid) :
            \/ m[1] < o[1]
            \/ m[1] = o[1] /\ m[2] < o[2]
            \/ m[1] = o[1] /\ m[2] = o[2] /\ m[3] <= o[3]

\* C4: apply_first_improvement returns the candidate of the first
\* improving legal move in that order, and the route itself when no legal
\* move improves.
C4_FirstImprovementIsFirst ==
    (last.op = "apply_first_improvement" /\ last.exc = "none") =>
        IF Improving(last.in, last.flag) = {}
        THEN last.out = last.in /\ ~last.ok
        ELSE last.out = candidate(last.in, FirstImproving(last.in, last.flag))

\* The sequence visits every intermediate once between the depots.
IsTour(seq, n) ==
    /\ Len(seq) = n + 2
    /\ seq[1] = 0
    /\ seq[n + 2] = n + 1
    /\ \A i \in 1..n : \E k \in 2..(n + 1) : seq[k] = i

\* An intermediate id of the instance.
Intermediate(i, n) == 1 <= i /\ i <= n

\* The parity rule as the data model states it: i -> j is forbidden when
\* i is even, j is odd and i < n/2, or i is odd, j is even and i >= n/2.
\* For integers, i < n/2 is i <= floor((n - 1) / 2) and i >= n/2 is
\* i >= ceil(n / 2).
Forbidden(i, j, n) ==
    \/ i % 2 = 0 /\ j % 2 # 0 /\ i <= (n - 1) \div 2
    \/ i % 2 # 0 /\ j % 2 = 0 /\ i >= (n + 1) \div 2

\* The validity predicate of the data model.
DataModelValid(seq, n) ==
    /\ Len(seq) >= 2
    /\ seq[1] = 0
    /\ seq[Len(seq)] = n + 1
    /\ Len(seq) = n + 2
    /\ \A i \in 1..n : Count(SubSeq(seq, 2, Len(seq) - 1), i) = 1
    /\ \A k \in 1..(Len(seq) - 1) :
          (Intermediate(seq[k], n) /\ Intermediate(seq[k + 1], n))
              => ~Forbidden(seq[k], seq[k + 1], n)

\* C5: is_valid_route returns true exactly for the routes that satisfy the
\* validity predicate of the data model.
C5_ValidityIsThePredicate ==
    last.op = "is_valid_route" =>
        (last.ok <=> DataModelValid(last.in, NumIntermediate(nodes)))

\* C6: on every consecutive pair of intermediate ids of a checked route
\* the two constraint tests of the loop reject the transition exactly when
\* the parity rule forbids it, each direction on its own; with n = 10 they
\* reject 2 -> 3 and let 6 -> 7 pass.
C6_ParityRule ==
    last.op = "is_valid_route" =>
        LET n == NumIntermediate(nodes)
            seq == last.in
        IN  /\ \A k \in 1..(Len(seq) - 1) :
                  (Intermediate(seq[k], n) /\ Intermediate(seq[k + 1], n)) =>
                      /\ constraint_violated(seq[k], seq[k + 1], n)
                            <=> Forbidden(seq[k], seq[k + 1], n)
                      /\ constraint_violated(seq[k + 1], seq[k], n)
                            <=> Forbidden(seq[k + 1], seq[k], n)
            /\ (n = 10 /\ seq = <<0, 2, 3, 11>>) => constraint_violated(2, 3, n)
            /\ (n = 10 /\ seq = <<0, 6, 7, 11>>) => ~constraint_violated(6, 7, n)

\* C6 witness: with n = 10 the route <<0, 2, 3, 11>>, whose transition
\* 2 -> 3 is forbidden while 3 -> 2 is not, has been checked.
C6_Witness ==
    /\ last.op = "is_valid_route"
    /\ NumIntermediate(nodes) = 10
    /\ last.in = <<0, 2, 3, 11>>
    /\ constraint_violated(2, 3, 10)
    /\ ~constraint_violated(3, 2, 10)

\* Every consecutive pair of the route has a depot in it.
EveryPairTouchesDepot(seq, n) ==
    \A k \in 1..(Len(seq) - 1) :
        ~(Intermediate(seq[k], n) /\ Intermediate(seq[k + 1], n))

\* C7: a pair with a depot in it never makes a route invalid: the loop of
\* is_valid_route rejects no pair that has depot 0 or depot n + 1 in it,
\* and a route that visits every intermediate once between the depots and
\* in which every pair touches a depot is valid.
C7_DepotPairsAdmissible ==
    last.op = "is_valid_route" =>
        LET n == NumIntermediate(nodes)
            seq == last.in
        IN  /\ \A k \in 1..(Len(seq) - 1) :
                  (seq[k] \in {0, n + 1} \/ seq[k + 1] \in {0, n + 1})
                      => ~pair_rejected(seq, k, n)
            /\ (IsTour(seq, n) /\ EveryPairTouchesDepot(seq, n)) => last.ok

\* The seed has a forbidden transition between two intermediates.
SeedHasForbidden(seq, n) ==
    \E k \in 2..(Len(seq) - 2) : constraint_violated(seq[k], seq[k + 1], n)

\* C8: the naive seed [0, 1, ..., n, n + 1] has no forbidden transition
\* between intermediates and passes the validity check of main.
C8_SeedSatisfiesParity ==
    last.op = "main_naive" =>
        /\ ~SeedHasForbidden(last.out, NumIntermediate(nodes))
        /\ last.ok

\* C8 as amended: the naive seed is [0, 1, ..., n, n + 1], with the depots
\* in place and every intermediate once; it is free of forbidden
\* transitions only for n <= 1 and n = 3; for n = 2 and for every n >= 4
\* it has one and fails the validity check of main.
C8_SeedParityByN ==
    last.op = "main_naive" =>
        LET n == NumIntermediate(nodes)
        IN  /\ IsTour(last.out, n)
            /\ \A k \in 1..(n + 2) : last.out[k] = k - 1
            /\ SeedHasForbidden(last.out, n) <=> (n = 2 \/ n >= 4)
            /\ (n = 2 \/ n >= 4) =>
                  /\ ~last.ok
                  /\ ~is_valid_route(last.out, nodes)

\* C8 witness: main has built and checked the seed of an instance with
\* n = 5, which has the forbidden transition 2 -> 3.
C8_Witness ==
    /\ last.op = "main_naive"
    /\ NumIntermediate(nodes) = 5
    /\ constraint_violated(last.out[3], last.out[4], 5)
    /\ ~last.ok

\* C9: for a valid seed, the route ALNSWrapper.optimise returns is valid:
\* n + 2 nodes, depot 0 first, depot n + 1 last, every intermediate once
\* and admissible transitions only.
C9_AlnsReturnsValidRoute ==
    (last.op = "optimise" /\ DataModelValid(last.in, NumIntermediate(nodes)))
        => DataModelValid(last.out, NumIntermediate(nodes))

\* C10: the objective of a route with at least one edge is
\* L * (max edge - min edge) + (sum of the edges) with L = (the largest
\* distance between two managed nodes) * (number of managed nodes - 2).
\* In hundredths, edges and L being in tenths.
C10_ObjectiveFormula ==
    (last.op = "calculate_objective_value" /\ Len(last.in) >= 2) =>
        LET r == last.in
            edges == {calculate_distance(nodes, r[k], r[k + 1]) : k \in 1..(Len(r) - 1)}
            longest == CHOOSE d \in edges : \A e \in edges : e <= d
            shortest == CHOOSE d \in edges : \A e \in edges : d <= e
            pairwise == {calculate_distance(nodes, a, b) : a \in DOMAIN nodes, b \in DOMAIN nodes}
            L == (CHOOSE d \in pairwise : \A e \in pairwise : e <= d)
                    * (Cardinality(DOMAIN nodes) - 2)
        IN  /\ last.exc = "none"
            /\ last.val = L * (longest - shortest)
                            + 10 * SumSeq([k \in 1..(Len(r) - 1) |->
                                            calculate_distance(nodes, r[k], r[k + 1])])

\* C10 witness: a tour of three edges of different lengths was evaluated
\* on an instance of two intermediates, and its objective exceeds its
\* total distance (L * Delta is not 0).
C10_Witness ==
    /\ last.op = "calculate_objective_value"
    /\ last.exc = "none"
    /\ IsTour(last.in, 2)
    /\ NumIntermediate(nodes) = 2
    /\ Cardinality({calculate_distance(nodes, last.in[k], last.in[k + 1]) : k \in 1..3}) = 3
    /\ last.val > 10 * total_distance(nodes, distances, last.in)

\* The largest distance between two of the managed nodes.
MaxPairwise(nd) ==
    LET pairwise == {calculate_distance(nd, a, b) : a \in DOMAIN nd, b \in DOMAIN nd}
    IN  CHOOSE d \in pairwise : \A e \in pairwise : e <= d

\* C11: every evaluation of the objective, whatever add_node calls and
\* evaluations came before, uses the L of the nodes the node manager holds
\* at that time: (largest pairwise distance) * (number of nodes - 2).
C11_MemoFollowsInstance ==
    (last.op = "calculate_objective_value" /\ last.exc = "none") =>
        l_memo = Some(MaxPairwise(nodes) * (Cardinality(DOMAIN nodes) - 2))

\* Delta and D of a route: the range and the sum of its edge lengths, in
\* tenths.
Delta(seq) ==
    MaxSeq(edge_distances(nodes, distances, seq))
        - MinSeq(edge_distances(nodes, distances, seq))

TotalLength(seq) == total_distance(nodes, distances, seq)

\* The tours whose Delta is at least one unit above that of r1.
LessBalanced(r1) ==
    {r2 \in TourRoutes(NumIntermediate(nodes)) : Delta(r1) <= Delta(r2) - 10}

\* C12: a tour whose Delta is lower by a unit or more than that of another
\* tour of the instance has the strictly lower objective, whatever the
\* total lengths of the two.
C12_BalanceDominates ==
    (last.op = "calculate_objective_value" /\ last.exc = "none") =>
        \A r2 \in LessBalanced(last.in) : last.val < Objective(r2)

\* C12 as amended: with Delta(r1) <= Delta(r2) - 1, objective(r2) exceeds
\* objective(r1) by at least D(r2) minus the largest pairwise distance:
\* r1 has the strictly lower objective when r2 is longer than the largest
\* pairwise distance, and no higher one when r2 is as long as it.
C12_BalanceDominatesUpToTie ==
    (last.op = "calculate_objective_value" /\ last.exc = "none") =>
        \A r2 \in LessBalanced(last.in) :
            /\ Objective(r2) - last.val >= 10 * (TotalLength(r2) - MaxPairwise(nodes))
            /\ TotalLength(r2) >= MaxPairwise(nodes)

\* C12 witness: the tour evaluated is longer than a tour whose Delta is a
\* unit or more above its own, and has the lower objective.
C12_Witness ==
    /\ last.op = "calculate_objective_value"
    /\ last.exc = "none"
    /\ \E r2 \in LessBalanced(last.in) :
          /\ TotalLength(last.in) > TotalLength(r2)
          /\ last.val < Objective(r2)

\* C13: get_distance(a, b) and get_distance(b, a) resolve to the same
\* cache key, (min id, max id), and return the same value, after any
\* earlier queries: the value just returned for (a, b) is the one a query
\* of (b, a) returns, and so it is for every pair of nodes.
C13_DistanceSymmetric ==
    last.op = "get_distance" =>
        LET a == last.args[1]
            b == last.args[2]
        IN  /\ DistanceKey(a, b) = DistanceKey(b, a)
            /\ DistanceKey(a, b) = <<Min2(a, b), Max2(a, b)>>
            /\ last.val = get_distance(nodes, distances, b, a)
            /\ \A x \in DOMAIN nodes, y \in DOMAIN nodes :
                  get_distance(nodes, distances, x, y)
                      = get_distance(nodes, distances, y, x)

\* C13 witness: a query with the larger id first returned a distance
\* above 0, and the cache holds it under (smaller id, larger id).
C13_Witness ==
    /\ last.op = "get_distance"
    /\ last.args[1] > last.args[2]
    /\ last.val > 0
    /\ <<last.args[2], last.args[1]>> \in DOMAIN distances
    /\ distances[<<last.args[2], last.args[1]>>] = last.val

\* C14: with a manager constructed for the n + 2 nodes of the instance,
\* get_distance on the end depot and the start depot, in either order,
\* returns 0.
C14_DepotClosingIsFree ==
    last.op = "get_distance" =>
        LET end_depot == Cardinality(DOMAIN nodes) - 1
        IN  (last.args = <<end_depot, 0>> \/ last.args = <<0, end_depot>>)
                => last.val = 0

\* Every entry of the cache c is in the cache d with the same value.
Grows(c, d) == \A key \in DOMAIN c : key \in DOMAIN d /\ d[key] = c[key]

\* optimise is running.
InRun(a) == a.pc \in {"select", "destroyed", "repaired"}

\* C15: no step removes an entry of a distance cache or changes its value:
\* the cache of the wrapper's manager, and through the ALNS run the caches
\* of the managers of the current, the best and the candidate state, keep
\* every entry, so their sizes never decrease; and a query of a pair that
\* is in the cache returns the value stored.
C15_CacheOnlyGrows ==
    [][ /\ Grows(distances, distances')
        /\ Cardinality(DOMAIN distances) <= Cardinality(DOMAIN distances')
        /\ (last'.op = "get_distance" /\ last.op # "get_distance"
               /\ DistanceKey(last'.args[1], last'.args[2]) \in DOMAIN distances)
              => last'.val = distances[DistanceKey(last'.args[1], last'.args[2])]
        /\ (InRun(alns) /\ InRun(alns')) =>
              /\ Grows(alns.curr_cache, alns'.curr_cache)
              /\ Grows(alns.best_cache, alns'.best_cache)
        /\ (alns.pc = "select" /\ alns'.pc = "destroyed")
              => Grows(alns.curr_cache, alns'.work_cache)
        /\ alns.pc \in {"destroyed", "repaired"}
              => Grows(alns.work_cache, alns'.work_cache) ]_vars

\* C15 witness: after an ALNS run of one iteration or more, a pair that the
\* run left in the cache of the wrapper's manager was queried again.
C15_Witness ==
    /\ last.op = "get_distance"
    /\ alns.pc = "done"
    /\ alns.iterations >= 1
    /\ last.args[1] # last.args[2]
    /\ last.val > 0
    /\ Cardinality(DOMAIN distances) >= 4

\* The seconds since the start time of the termination object.
Elapsed == clock - termination.start_time

\* The gates of the termination object that are enabled and tripped by the
\* iteration count and the value of the last call: a budget is enabled
\* unless it is below 0, a value gate when its bound is set.
SecondsTripped ==
    termination.max_seconds >= 0 /\ Elapsed >= termination.max_seconds

IterationsTripped ==
    /\ termination.max_iterations >= 0
    /\ ~IsNone(last.args[1])
    /\ last.args[1][1] >= termination.max_iterations

MinValueTripped ==
    /\ ~IsNone(termination.min_value)
    /\ ~IsNone(last.args[2])
    /\ last.args[2][1] <= termination.min_value[1]

MaxValueTripped ==
    /\ ~IsNone(termination.max_value)
    /\ ~IsNone(last.args[2])
    /\ last.args[2][1] >= termination.max_value[1]

\* C16: should_terminate, called with an iteration count, returns true
\* whenever an enabled gate is tripped: the time budget, the iteration
\* budget, min_value or max_value.
C16_AnyTrippedGateTerminates ==
    (last.op = "should_terminate" /\ ~IsNone(last.args[1])) =>
        ((SecondsTripped \/ IterationsTripped \/ MinValueTripped \/ MaxValueTripped)
            => (last.exc = "none" /\ last.ok))

\* C17: a budget of 0 or more is enabled: should_terminate returns true
\* for every iteration count at or above max_iterations >= 0, and once
\* the elapsed time is at or above max_seconds >= 0.
C17_OnlyNegativeBudgetsDisable ==
    (last.op = "should_terminate" /\ ~IsNone(last.args[1])) =>
        ((SecondsTripped \/ IterationsTripped) => (last.exc = "none" /\ last.ok))


(***************************************************************************)
(* C18: the legal space of the explicit arguments of apply.                *)
(***************************************************************************)
\* The parameter tuple <<v1, v2, insert_pos>> is outside the legal space
\* of a route of len nodes.
OutsideLegalSpace(len, v1, v2, insert_pos) ==
    \/ v1 < 1
    \/ v2 > len - 2
    \/ v1 > v2
    \/ insert_pos < 0
    \/ insert_pos >= len - (v2 - v1 + 1)
    \/ (v1 <= insert_pos /\ insert_pos <= v2)

\* C18: Relocate.apply called with an explicit parameter tuple outside the
\* legal space (v1 < 1, v2 > len-2, v1 > v2, insert_pos < 0, insert_pos >=
\* len - segment_length, or insert_pos inside [v1, v2]) performs no move:
\* the sequence returned equals the input sequence, and nothing is raised.
C18_IllegalTupleIsNoMove ==
    (/\ last.op = "apply"
     /\ \A k \in 1..3 : ~IsNone(last.args[k])
     /\ OutsideLegalSpace(Len(last.in), last.args[1][1], last.args[2][1],
                          last.args[3][1]))
        => (last.out = last.in /\ last.exc = "none")


(***************************************************************************)
(* C19: who may write to the route passed in.                              *)
(***************************************************************************)
\* C19: apply with inplace = false, apply_best_improvement and
\* apply_first_improvement leave the sequence of the route they are given
\* as it was; apply with inplace = true leaves in it the sequence it returns.
C19_OnlyInplaceWritesTheRoute ==
    /\ (last.op = "apply" /\ ~last.flag) => route = last.in
    /\ last.op \in {"apply_best_improvement", "apply_first_improvement"}
          => route = last.in
    /\ (last.op = "apply" /\ last.flag) => route = last.out

\* A search that returns a better route than the one it was given, which
\* an earlier in-place move had taken the start depot from the front of.
C19_Witness ==
    /\ last.op \in {"apply_best_improvement", "apply_first_improvement"}
    /\ last.exc = "none"
    /\ last.out # last.in
    /\ route = last.in
    /\ route[1] # 0


(***************************************************************************)
(* C20: the draws of operations constructed with the same seed.            *)
(***************************************************************************)
\* C20: two Relocate operations constructed with the same rnd_seed and
\* called with the same routes and omitted parameters sample the same
\* <<v1, v2, insert_pos>> on each successive call and return identical
\* routes.
C20_SameSeedSameDraws ==
    rnd_seed[1] = rnd_seed[2] =>
        \A j \in 1..Min2(Len(rnd_calls[1]), Len(rnd_calls[2])) :
            rnd_calls[1][j].in = rnd_calls[2][j].in =>
                /\ rnd_calls[1][j].draw = rnd_calls[2][j].draw
                /\ rnd_calls[1][j].out = rnd_calls[2][j].out


(***************************************************************************)
(* C22-C24: the journal of the callback.                                   *)
(***************************************************************************)
\* The last call was load_alns_result_statistics and it returned.
Loaded == last.op = "load_alns_result_statistics" /\ last.exc = "none"

\* The record the call appended for objectives[i] (i counts from 0).
Appended(i) == iterations[last.val + i + 1]

\* min(objectives[0..i]), i counting from 0.
MinUpTo(objectives, i) == MinSeq(SubSeq(objectives, 1, i + 1))

\* C22: the best_value series of the records appended by
\* load_alns_result_statistics is non-increasing in iteration order and
\* starts at objectives[0].
C22_BestSeriesNonIncreasing ==
    Loaded =>
        /\ Len(iterations) = last.val + Len(last.in)
        /\ Appended(0).best_value = last.in[1]
        /\ \A i \in 1..(Len(last.in) - 1) :
              Appended(i).best_value <= Appended(i - 1).best_value

\* A call with objectives that go down and up again.
C22_Witness ==
    /\ Loaded
    /\ Len(last.in) = 3
    /\ last.in[2] < last.in[1]
    /\ last.in[3] > last.in[2]
    /\ Appended(2).best_value < Appended(0).best_value

\* C23: record i built by load_alns_result_statistics has best_value =
\* min(objectives[0..i]), and so best_value <= current_value.
C23_BestIncludesIteration ==
    Loaded =>
        \A i \in 0..(Len(last.in) - 1) :
            /\ Appended(i).best_value = MinUpTo(last.in, i)
            /\ Appended(i).best_value <= Appended(i).current_value

\* C24: after a call of on_iteration or load_alns_result_statistics every
\* record that was in the journal is at the same index with the same
\* fields and values; the call only adds records at the end.
C24_JournalAppendOnly ==
    last.op \in {"on_iteration", "load_alns_result_statistics"} =>
        /\ Len(iterations) >= Len(last.out)
        /\ \A i \in 1..Len(last.out) : iterations[i] = last.out[i]


(***************************************************************************)
(* C25: the rows CSVParser.parse keeps.                                    *)
(***************************************************************************)
\* The data rows of the file that have three fields, in file order.
ThreeFieldRows(lines) ==
    LET three(parts) == Len(parts) = 3
    IN  SelectSeq(Tail(lines), three)

\* C25: CSVParser.parse returns exactly one node per data row of three
\* comma-separated fields, in file order; a row with another number of
\* fields contributes no node and does not abort the parsing.
C25_InvalidRowsAreSkipped ==
    last.op = "parse" =>
        /\ last.exc = "none"
        /\ Len(last.out) = Len(ThreeFieldRows(last.in))
        /\ \A k \in 1..Len(last.out) :
              last.out[k] = <<ThreeFieldRows(last.in)[k][1],
                              ThreeFieldRows(last.in)[k][2],
                              ThreeFieldRows(last.in)[k][3]>>


(***************************************************************************)
(* C26: the k closest nodes.                                               *)
(***************************************************************************)
\* C26: for a manager that holds the target and more than k other nodes,
\* get_closest_k_nodes returns exactly k nodes, none of them the target,
\* and no node left out is nearer to the target than a node returned.
C26_ClosestExcludeTarget ==
    (/\ last.op = "get_closest_k_nodes"
     /\ Len(last.in) - 1 > last.args[2]) =>
        LET target == last.args[1]
            returned == {last.out[j] : j \in 1..Len(last.out)}
            others == (DOMAIN nodes) \ {target}
        IN  /\ Len(last.out) = last.args[2]
            /\ Cardinality(returned) = last.args[2]
            /\ target \notin returned
            /\ \A x \in returned, y \in others \ returned :
                  calculate_distance(nodes, target, x)
                      <= calculate_distance(nodes, target, y)

\* The node s steps along the successors from x; NoEntry when a node on
\* the way has no successor.
RECURSIVE Follow(_, _, _)
Follow(succ, x, s) ==
    IF s = 0 THEN x
    ELSE IF x = NoEntry THEN NoEntry
    ELSE IF ~HasEntry(succ, x) THEN NoEntry
    ELSE Follow(succ, Entry(succ, x), s - 1)

\* C27: would_form_subcycle(from, to, state) is true exactly when the
\* successors lead from `to` to `from` in s steps for some s with
\* 1 <= s < |nodes| - 1; it is false when `from` is reached only at step
\* |nodes| - 1, when a node on the way has no successor, and when `from`
\* is not reached.
C27_SubcycleWithinBound ==
    last.op = "would_form_subcycle"
        => LET len == Len(alns.nodes)
               succ == dict_map(last.in, len)
           IN  last.ok <=> \E s \in 1..(len - 2) :
                               Follow(succ, last.args[2], s) = last.args[1]

\* `from` is reached at step |nodes| - 1 and not before.
C27_Witness ==
    /\ last.op = "would_form_subcycle"
    /\ Len(alns.nodes) >= 3
    /\ ~last.ok
    /\ Follow(dict_map(last.in, Len(alns.nodes)), last.args[2],
              Len(alns.nodes) - 1) = last.args[1]

\* The nodes of the walk from nodes[0] along the edges, one per step.
WalkFromStart(ns, edges) ==
    [k \in 1..Len(ns) |-> Follow(dict_map(edges, Len(ns)), ns[1], k - 1)]

\* The walk collects |nodes| distinct nodes.
WalkCollectsAll(ns, edges) ==
    LET walk == WalkFromStart(ns, edges)
    IN  /\ \A k \in 1..Len(ns) : walk[k] # NoEntry
        /\ \A j, k \in 1..Len(ns) : j # k => walk[j] # walk[k]

\* C28: the objective of a state is infinite exactly when the number of
\* edges differs from the number of nodes or the walk from nodes[0] meets
\* a node again, or a node without successor, before it has |nodes|
\* distinct nodes; otherwise it is the route objective of the sequence of
\* the walk, which holds every node once.
C28_ObjectiveOfState ==
    last.op = "objective"
        => LET ns == alns.nodes
               walk == WalkFromStart(ns, last.in)
           IN  /\ last.out = PyInf
                     <=> (Len(last.in) # Len(ns) \/ ~WalkCollectsAll(ns, last.in))
               /\ last.out # PyInf
                     => /\ last.out = Some(Objective(walk))
                        /\ \A k \in 1..Len(ns) : Count(walk, ns[k]) = 1

\* A finite objective of a state whose last node does not lead back to the
\* first.
C28_Witness ==
    /\ last.op = "objective"
    /\ last.out # PyInf
    /\ Follow(dict_map(last.in, Len(alns.nodes)), alns.nodes[1], Len(alns.nodes))
          # alns.nodes[1]

\* The nodes an orphan can be given by the first rule of greedy_repair in
\* the state with the edge dict edges: another node, not yet the successor
\* of a node unless it is nodes[0], closing no sub-cycle, by an admissible
\* transition.
PrimaryTargets(orphan, ns, edges) ==
    LET succ == dict_map(edges, Len(ns))
    IN  {other \in {ns[k] : k \in 1..Len(ns)} \ {orphan} :
            /\ other \notin dict_values(edges) \/ other = ns[1]
            /\ ~ \E s \in 1..(Len(ns) - 2) : Follow(succ, other, s) = orphan
            /\ is_edge_valid(orphan, other, NumIntermediate(nodes))}

\* The admissible targets of an orphan.
AdmissibleTargets(orphan, ns) ==
    {other \in {ns[k] : k \in 1..Len(ns)} \ {orphan} :
        is_edge_valid(orphan, other, NumIntermediate(nodes))}

\* The target is a nearest node of the set.
NearestOf(orphan, target, S) ==
    /\ target \in S
    /\ \A other \in S :
          calculate_distance(nodes, orphan, target)
              <= calculate_distance(nodes, orphan, other)

\* greedy_repair has run in this step.
RepairStep == alns.pc = "destroyed" /\ alns'.pc = "repaired"

\* C29: greedy_repair adds edges at the end of the dict, one per orphan
\* it connects, so the dict before the k-th added edge is the state the
\* orphan was connected in.  When the first rule leaves targets to an
\* orphan, its successor is a nearest one of them; the successor comes
\* from all the admissible targets only when the first rule leaves none.
C29_RepairPicksNearestEligible ==
    [][RepairStep =>
          /\ SubSeq(alns'.work, 1, Len(alns.work)) = alns.work
          /\ \A k \in (Len(alns.work) + 1)..Len(alns'.work) :
                LET before == SubSeq(alns'.work, 1, k - 1)
                    orphan == alns'.work[k][1]
                    target == alns'.work[k][2]
                    primary == PrimaryTargets(orphan, alns.nodes, before)
                IN  /\ orphan \notin dict_keys(before)
                    /\ IF primary # {}
                       THEN NearestOf(orphan, target, primary)
                       ELSE NearestOf(orphan, target,
                                      AdmissibleTargets(orphan, alns.nodes))]_vars

\* An orphan was connected by the first rule while another admissible
\* node, already the successor of a node, was nearer.
C29_Witness ==
    /\ alns.pc = "repaired"
    /\ \E k \in 1..Len(alns.work) :
          LET before == SubSeq(alns.work, 1, k - 1)
              orphan == alns.work[k][1]
              target == alns.work[k][2]
              primary == PrimaryTargets(orphan, alns.nodes, before)
          IN  /\ orphan \notin dict_keys(before)
              /\ target \in primary
              /\ \E other \in AdmissibleTargets(orphan, alns.nodes) \ primary :
                    calculate_distance(nodes, orphan, other)
                        < calculate_distance(nodes, orphan, target)

\* The orphans greedy_repair finds no admissible target for.
Unrepairable(ns, edges) ==
    {x \in {ns[k] : k \in 1..Len(ns)} \ dict_keys(edges) :
        AdmissibleTargets(x, ns) = {}}

RemovedKeys == dict_keys(alns.curr) \ dict_keys(alns.work)

\* The entries left are those of the current state, in their order.
OthersUnchanged == alns.work = dict_del(alns.curr, RemovedKeys)

\* floor(0.1 * |edges|) of the current state.
TenthOfEdges == Len(alns.curr) \div 10

\* A destroy operator has run on a complete state.
DestroyedComplete ==
    /\ alns.pc = "destroyed"
    /\ dict_keys(alns.curr) = {alns.nodes[k] : k \in 1..Len(alns.nodes)}

HasCycleShorterThan(edges, len, num) ==
    \E k \in 1..Len(edges) :
        \E s \in 1..(num - 1) : Follow(dict_map(edges, len), edges[k][1], s) = edges[k][1]

====
